---- MODULE Spec2Model ----
(***************************************************************************)
(* State-machine model of the TCGA manifest downloader                     *)
(* (download_tcga_boto3.py, download_tcga_boto3_02.py,                     *)
(* download_tcga_boto3_ok.py) and of the retry-manifest generator          *)
(* (generate_retry_manifest.py).                                           *)
(*                                                                         *)
(* Text values (cells of a TSV file, checksums, file names) are sequences  *)
(* of tokens: a token is one character, or a run of letters and digits of  *)
(* one letter case ("AB12", "ab12", "bam", "BAM"), so that lower() and     *)
(* strip() are computed on the text and are not the identity.              *)
(* The status strings of the scripts are Chinese text; the model names     *)
(* them by the status taxonomy of the design document (see STATUS NAMES).  *)
(***************************************************************************)
EXTENDS Integers, Sequences, FiniteSets, TLC

(***************************************************************************)
(* Bounds of the model                                                     *)
(***************************************************************************)
\* longest manifest (number of data rows) the model explores
MaxEntries == 2
\* largest value of --retries the model explores (the smallest is -1)
MaxRetries == 1
\* longest log file (number of data rows) given to the retry-manifest generator
MaxRecords == 2

\* Python's None as a cell value (no text value is this sequence)
None == <<"<None>">>
\* "no such column": the value of a missing key of actual_col_names
NoCol == "<None>"
\* the "N/A" sentinel of the size and actual-MD5 columns
NA == <<"N/A">>

(***************************************************************************)
(* Text helpers: str.lower(), str.strip(), str.lstrip("."), os.path.splitext *)
(***************************************************************************)
LowerTok(t) ==
    CASE t = "AB12" -> "ab12"
      [] t = "CD34" -> "cd34"
      [] t = "BAM" -> "bam"
      [] t = "SVS" -> "svs"
      [] t = "FAILED_DOWNLOAD" -> "failed_download"
      [] t = "FAILED_INTEGRITY" -> "failed_integrity"
      [] t = "S3_CHECK_FAILED" -> "s3_check_failed"
      [] t = "SUCCESS" -> "success"
      [] OTHER -> t

\* str.lower(): every cased character is mapped, the length is kept
Lower(s) == [i \in 1..Len(s) |-> LowerTok(s[i])]

IsSpace(t) == t \in {" ", "\t"}

RECURSIVE LStrip(_)
LStrip(s) == IF s # <<>> /\ IsSpace(Head(s)) THEN LStrip(Tail(s)) ELSE s

RECURSIVE RStrip(_)
RStrip(s) ==
    IF s # <<>> /\ IsSpace(s[Len(s)]) THEN RStrip(SubSeq(s, 1, Len(s) - 1)) ELSE s

\* str.strip()
Strip(s) == RStrip(LStrip(s))

RECURSIVE LStripDot(_)
\* str.lstrip(".")
LStripDot(s) == IF s # <<>> /\ Head(s) = "." THEN LStripDot(Tail(s)) ELSE s

\* index of the last "." of s that has a non-dot token somewhere before it, or 0
LastDot(s) ==
    LET cand == {i \in 1..Len(s) :
                    /\ s[i] = "."
                    /\ \E j \in 1..(i - 1) : s[j] # "."}
    IN IF cand = {} THEN 0 ELSE CHOOSE i \in cand : \A j \in cand : j <= i

\* os.path.splitext(name)[1]: the extension with its leading dot, or empty
SplitExt(s) == IF LastDot(s) = 0 THEN <<>> ELSE SubSeq(s, LastDot(s), Len(s))

\* os.path.splitext(name)[1].lstrip(".").lower()
FileExt(s) == Lower(LStripDot(SplitExt(s)))

(***************************************************************************)
(* STATUS NAMES: the value of the log's status column.                     *)
(***************************************************************************)
SUCCESS_VERIFIED == "SUCCESS_VERIFIED"
SKIPPED_LOCAL_VERIFIED == "SKIPPED_LOCAL_VERIFIED"
SKIPPED_EXTENSION_FILTERED == "SKIPPED_EXTENSION_FILTERED"
SKIPPED_REMOTE_NOT_FOUND == "SKIPPED_REMOTE_NOT_FOUND"
SKIPPED_REMOTE_FORBIDDEN == "SKIPPED_REMOTE_FORBIDDEN"
SKIPPED_REMOTE_OTHER_ERROR == "SKIPPED_REMOTE_OTHER_ERROR"
FAILED_TRANSFER == "FAILED_TRANSFER"
FAILED_INTEGRITY_MISMATCH == "FAILED_INTEGRITY_MISMATCH"
FAILED_CHECKSUM_READ_ERROR == "FAILED_CHECKSUM_READ_ERROR"
FAILED_LOCAL_RESOURCE == "FAILED_LOCAL_RESOURCE"

(***************************************************************************)
(* Catalog Normalizer: parse_manifest                                      *)
(***************************************************************************)
col_options_id == <<"id", "uuid", "file_id">>
col_options_filename == <<"filename", "file_name">>
col_options_md5 == <<"md5", "md5sum">>
col_options_size == <<"size", "file_size">>

InSeq(x, s) == \E i \in 1..Len(s) : s[i] = x

\* (variant: the first column of the header that is one of the options)
FirstOption_header_order(options, fieldnames) ==
    LET hits == {c \in 1..Len(fieldnames) : InSeq(fieldnames[c], options)}
    IN IF hits = {} THEN NoCol
       ELSE fieldnames[CHOOSE c \in hits : \A j \in hits : c <= j]
\* the first option of the list that is a column of the header, or None
FirstOption(options, fieldnames) ==
    LET hits == {i \in 1..Len(options) : InSeq(options[i], fieldnames)}
    IN IF hits = {} THEN NoCol
       ELSE options[CHOOSE i \in hits : \A j \in hits : i <= j]

\* csv.DictReader row lookup: the cell under the LAST column of that name
\* (dict(zip(fieldnames, row)) keeps the last duplicate); None when the name
\* is no column or the row is too short to have the cell
RowGet(fieldnames, row, col) ==
    LET hits == {i \in 1..Len(fieldnames) : fieldnames[i] = col}
    IN IF hits = {} THEN None
       ELSE LET k == CHOOSE i \in hits : \A j \in hits : j <= i
            IN IF k <= Len(row) THEN row[k] ELSE None

\* a test that takes the empty string for a value
Truthy_not_none(v) == v # None
\* Python truthiness of a cell: None and the empty string are false
Truthy(v) == v # None /\ v # <<>>

actual_col_names(fieldnames) ==
    [id |-> FirstOption(col_options_id, fieldnames),
     filename |-> FirstOption(col_options_filename, fieldnames),
     md5 |-> FirstOption(col_options_md5, fieldnames),
     size |-> FirstOption(col_options_size, fieldnames)]

\* checksum normalization as the code does it: md5_checksum.lower()
NormalizeMd5(md5_checksum) == Lower(md5_checksum)

\* one data row -> <<entry>> or <<>> when the row is skipped
ParseRow(fieldnames, cols, row) ==
    LET file_uuid == RowGet(fieldnames, row, cols.id)
        file_name == RowGet(fieldnames, row, cols.filename)
        md5_checksum == RowGet(fieldnames, row, cols.md5)
        file_size == IF cols.size # NoCol
                     THEN RowGet(fieldnames, row, cols.size) ELSE NA
    IN IF ~Truthy(file_uuid) \/ ~Truthy(file_name) \/ ~Truthy(md5_checksum)
       THEN <<>>
       ELSE <<[uuid |-> file_uuid, name |-> file_name,
               md5 |-> NormalizeMd5(md5_checksum), size |-> file_size]>>

RECURSIVE ParseRows(_, _, _)
ParseRows(fieldnames, cols, rows) ==
    IF rows = <<>> THEN <<>>
    ELSE ParseRow(fieldnames, cols, Head(rows))
            \o ParseRows(fieldnames, cols, Tail(rows))

\* the return value None of parse_manifest (a load error)
LoadError == [none |-> TRUE, files |-> <<>>]

\* a load that fails when the size column is missing, too
parse_manifest_with_size(mf) ==
    IF ~mf.readable THEN LoadError
    ELSE IF mf.fieldnames = <<>> THEN LoadError
    ELSE LET cols == actual_col_names(mf.fieldnames)
         IN IF cols.id = NoCol \/ cols.filename = NoCol \/ cols.md5 = NoCol
               \/ cols.size = NoCol
            THEN LoadError
            ELSE [none |-> FALSE,
                  files |-> ParseRows(mf.fieldnames, cols, mf.rows)]
\* parse_manifest: None on a load error, else the list files_to_process
parse_manifest(mf) ==
    IF ~mf.readable THEN LoadError
    ELSE IF mf.fieldnames = <<>> THEN LoadError
    ELSE LET cols == actual_col_names(mf.fieldnames)
         IN IF cols.id = NoCol \/ cols.filename = NoCol \/ cols.md5 = NoCol
            THEN LoadError
            ELSE [none |-> FALSE,
                  files |-> ParseRows(mf.fieldnames, cols, mf.rows)]

(***************************************************************************)
(* The world of the downloader: manifest file, object store, local files   *)
(***************************************************************************)
U1 == <<"u1">>
U2 == <<"u2">>
NameBam == <<"a", ".", "bam">>
NameSvs == <<"b", ".", "SVS">>
\* content digests (hashlib.md5(...).hexdigest() is lower-case hex)
D1 == <<"ab12">>
D2 == <<"cd34">>
\* digest of a truncated or otherwise damaged local file: no checksum of a
\* manifest equals it
DTrunc == <<"0bad">>
\* "no file at this path"
Absent == <<"<absent>">>

\* s3_key = f"{uuid}/{file_name}"; the local path is derived from the same pair
s3_key(uuid, file_name) == <<uuid, file_name>>
Keys == {s3_key(U1, NameBam), s3_key(U2, NameSvs)}

\* the digest of the object's content in the bucket
RemoteDigest(key) == IF key = s3_key(U1, NameBam) THEN D1 ELSE D2

GoodHeader == <<"id", "filename", "md5", "size">>
\* rows of a manifest with the columns of GoodHeader
RowPool ==
    { <<U1, NameBam, <<"AB12">>, <<"10">> >>,   \* checksum in upper case
      <<U2, NameSvs, D1, <<"20">> >>,           \* a checksum the object does not have
      <<U2, NameSvs, <<>>, <<"20">> >> }        \* no checksum: skipped at load

RECURSIVE SeqsUpTo(_, _)
\* all sequences over S of length 0..n
SeqsUpTo(S, n) ==
    IF n = 0 THEN {<<>>}
    ELSE LET shorter == SeqsUpTo(S, n - 1)
         IN shorter \cup {Append(q, x) : q \in {r \in shorter : Len(r) = n - 1}, x \in S}

Manifests ==
    {[readable |-> TRUE, fieldnames |-> GoodHeader, rows |-> r] :
        r \in SeqsUpTo(RowPool, MaxEntries)}
    \cup {[readable |-> FALSE, fieldnames |-> <<>>, rows |-> <<>>],
          [readable |-> TRUE, fieldnames |-> <<>>, rows |-> <<>>],
          [readable |-> TRUE, fieldnames |-> <<"id", "filename">>, rows |-> <<>>]}

\* keys named by the rows of a manifest (whatever its header)
KeysOf(mf) == {s3_key(mf.rows[k][1], mf.rows[k][2]) : k \in 1..Len(mf.rows)}

\* "basic": download_tcga_boto3.py; "ok": download_tcga_boto3_ok.py, which adds
\* the extension filter and the S3 pre-check and writes the transfer-failure
\* record after the retry loop
Variants == {"basic", "ok"}
\* "v02": download_tcga_boto3_02.py, which adds the extension filter alone
FilterVariants == {"v02", "ok"}
HasFilter(v) == v \in FilterVariants
HasProbe(v) == v = "ok"

\* --allowed-extensions split at the commas: unset, or one piece " .BAM"
ExtArgs == {<<>>, << <<" ", ".", "BAM">> >>}

\* allowed_extensions_set: ext.strip().lower().lstrip(".") of every piece
\* whose strip() is not empty
allowed_extensions_set(pieces) ==
    {LStripDot(Lower(Strip(pieces[k]))) :
        k \in {j \in 1..Len(pieces) : Strip(pieces[j]) # <<>>}}

VARIABLES
    variant,          \* which script runs
    args,             \* parsed command line
    manifest,         \* the manifest file
    remote,           \* object store: key -> "present" | "notfound" | "forbidden"
    files,            \* local data files: key -> digest of the content, or Absent
    dirs,             \* per-UUID target directories that exist
    base_dirs,        \* the log and dataset directories exist
    log_file,         \* [exists, lines]: the outcome log on disk
    log_f,            \* rows written to the open log that are not on disk yet
    pc,               \* position of main()
    file_infos,       \* initial_file_infos / file_infos
    to_download,      \* file_infos_to_download, as positions in file_infos
    skipped_ext,      \* skipped_due_to_extension, as positions in file_infos
    i,                \* position in to_download of the entry being processed
    attempt,          \* loop variable of the retry loop
    download_success,
    last_exc,         \* class of the last download exception: none|client|other
    calls,            \* history: the calls made so far for the entry at i
    summary_stats,    \* the counters of the final summary
    run,              \* "first" | "second": which run over the same directory
    first_verified,   \* history: the first run recorded every entry as verified
    retry_pc,         \* position of generate_retry_manifest.py's main()
    retry_log,        \* the file given as --log-file
    retry_manifest,   \* the file written at --output
    retry_file_infos, \* parse_manifest's result for the file at --output
    uuid_pc,          \* position of download_by_uuid.py's main()
    uuid_args,        \* its command line: --uuid, --filename
    bucket,           \* the objects of the bucket it reads
    files_found,      \* the result of list_files_in_uuid
    obj_i,            \* position in files_found of the object being downloaded
    download_file_locals, \* s3_key, filename, local_file_path, file_size
    callback,         \* <<>> (None) or <<the ProgressPercentage object>>
    workers,          \* the transfer threads: position in __call__ and locals
    transfer,         \* bytes not yet reported, and history: bytes reported
    stdout,           \* the progress lines written
    saved,            \* history: key, local path and result of each download_file
    detect_pc,        \* position of detect_tcga_boto3.py's main()
    files_to_check,   \* the result of parse_manifest_for_check
    failed_count,
    processed_count,
    detect_log,       \* [exists, lines]: the failure log
    probes            \* history: the answer of head_object for each entry checked

vars == <<variant, args, manifest, remote, files, dirs, base_dirs, log_file, log_f, pc,
          file_infos, to_download, skipped_ext, i, attempt, download_success,
          last_exc, calls, summary_stats, run, first_verified,
          retry_pc, retry_log, retry_manifest, retry_file_infos,
          uuid_pc, uuid_args, bucket, files_found, obj_i, download_file_locals,
          callback, workers, transfer, stdout, saved,
          detect_pc, files_to_check, failed_count, processed_count, detect_log,
          probes>>

\* the variables of the retry-manifest generator
retry_vars == <<retry_pc, retry_log, retry_manifest, retry_file_infos>>

\* the variables of download_by_uuid.py
by_uuid_vars == <<uuid_pc, uuid_args, bucket, files_found, obj_i, download_file_locals,
                  callback, workers, transfer, stdout, saved>>
\* the variables of detect_tcga_boto3.py
detect_vars == <<detect_pc, files_to_check, failed_count, processed_count, detect_log,
                 probes>>
\* the variables of the two tools
tool_vars == <<by_uuid_vars, detect_vars>>

\* the transfer threads that call the progress callback
Workers == {1, 2}
\* a thread outside __call__
WorkerIdle == [pc |-> "idle", bytes_amount |-> 0, tmp |-> 0, mine |-> 0]

\* download_by_uuid.py is not running
ByUuidIdle ==
    /\ uuid_pc = "idle"
    /\ uuid_args = [uuid |-> <<>>, filename |-> None]
    /\ bucket = {}
    /\ files_found = <<>>
    /\ obj_i = 0
    /\ download_file_locals = <<>>
    /\ callback = <<>>
    /\ workers = [w \in Workers |-> WorkerIdle]
    /\ transfer = [unreported |-> 0, reported |-> 0]
    /\ stdout = <<>>
    /\ saved = <<>>
\* detect_tcga_boto3.py is not running
DetectIdle ==
    /\ detect_pc = "idle"
    /\ files_to_check = <<>>
    /\ failed_count = 0
    /\ processed_count = 0
    /\ detect_log = [exists |-> FALSE, lines |-> <<>>]
    /\ probes = <<>>
ToolsIdle == ByUuidIdle /\ DetectIdle

\* "no file at this path" for a TSV file
NoFile == [exists |-> FALSE, fieldnames |-> <<>>, rows |-> <<>>]

\* a record left in the log by an earlier run
StaleRecord ==
    [status |-> FAILED_TRANSFER, uuid |-> U1, name |-> NameBam,
     expected_md5 |-> D1, actual_md5 |-> NA, size |-> NA, pos |-> 0]

\* nothing called yet, no failure met yet; local0 is the content of the
\* entry's local file when the loop reaches the entry
NoCalls == [probe |-> 0, mkdir |-> 0, download |-> 0, sleep |-> 0, md5 |-> 0,
            failures |-> {}, head |-> [exc |-> "unset", code |-> "", http |-> 0],
            local0 |-> Absent]

\* summary_stats before anything is counted
NoStats ==
    [processed |-> 0, successful_md5_match |-> 0, skipped_md5_match |-> 0,
     skipped_extension_mismatch |-> 0, skipped_s3_not_found |-> 0,
     skipped_s3_forbidden |-> 0, skipped_s3_other_error |-> 0,
     failed_md5_mismatch |-> 0, failed_aws_download |-> 0,
     failed_md5_calc |-> 0, failed_other |-> 0]

InitIn(variants, manifests, keys) ==
    /\ variant \in variants
    /\ args \in [skip_existing : BOOLEAN,
                 retries : (-1)..MaxRetries,
                 allowed_extensions : ExtArgs]
    /\ (~HasFilter(variant) => args.allowed_extensions = <<>>)
    /\ manifest \in manifests
    /\ remote \in [keys -> {"present", "notfound", "forbidden"}]
    /\ files \in [keys -> {Absent, D1, D2, DTrunc}]
    /\ \A k \in keys :
          /\ files[k] \in {Absent, RemoteDigest(k), DTrunc}
          \* what no step of the run can observe is fixed: objects and files
          \* the manifest does not name, local files without --skip-existing
          \* (only a downloaded file is read then), and the kind of a missing
          \* object when there is no pre-check
          /\ (k \notin KeysOf(manifest) => remote[k] = "present" /\ files[k] = Absent)
          /\ (~args.skip_existing => files[k] = Absent)
          /\ (~HasProbe(variant) => remote[k] # "forbidden")
    /\ dirs = {k[1] : k \in {kk \in keys : files[kk] # Absent}}
    /\ base_dirs \in BOOLEAN
    /\ (\E k \in keys : files[k] # Absent) => base_dirs
    /\ log_file = IF base_dirs THEN [exists |-> TRUE, lines |-> <<StaleRecord>>]
                           ELSE [exists |-> FALSE, lines |-> <<>>]
    /\ pc = "parse"
    /\ file_infos = <<>>
    /\ to_download = <<>>
    /\ skipped_ext = <<>>
    /\ i = 0
    /\ attempt = 0
    /\ download_success = FALSE
    /\ last_exc = "none"
    /\ calls = NoCalls
    /\ log_f = <<>>
    /\ summary_stats = NoStats
    /\ run = "first"
    /\ first_verified = FALSE
    /\ retry_pc = "start"
    /\ retry_log = NoFile
    /\ retry_manifest = NoFile
    /\ retry_file_infos = LoadError
    /\ ToolsIdle

\* the state when main() starts, over the objects and local files of Keys
InitWith(variants, manifests) == InitIn(variants, manifests, Keys)

\* the two scripts of Variants over a set of manifests
InitOver(manifests) == InitWith(Variants, manifests)

\* the state when main() starts, over the manifests of the model
Init == InitOver(Manifests)

(***************************************************************************)
(* Helpers of main()                                                       *)
(***************************************************************************)
\* the entry the per-entry loop is at
file_info == file_infos[to_download[i]]
cur_key == s3_key(file_info.uuid, file_info.name)

\* the value written for the actual-MD5 column when the digest has no value
MD5_CALC_ERROR == <<"calc-error">>

\* write_log_entry / write_log: one row appended to the log and flushed;
\* "actual_md5 if actual_md5 else 'N/A'"
LogRow(status, pos, actual_md5) ==
    [status |-> status,
     uuid |-> file_infos[pos].uuid,
     name |-> file_infos[pos].name,
     expected_md5 |-> file_infos[pos].md5,
     actual_md5 |-> IF Truthy(actual_md5) THEN actual_md5 ELSE NA,
     size |-> file_infos[pos].size,
     pos |-> pos]

\* log_writer.writerow(entry): the row goes to the buffer of the open file
writerow(entry) == Append(log_f, entry)

\* (variant: the rows that are written stay in the buffer)
flush_nothing(buffered) == [disk |-> log_file.lines, buffer |-> buffered]

\* log_f.flush(): the buffered rows are written after the lines of the file
flush(buffered) == [disk |-> log_file.lines \o buffered, buffer |-> <<>>]

\* (variant: the write replaces the lines of the file by the new row)
write_log_entry_rewrite(status, pos, actual_md5) ==
    /\ log_file' = [log_file EXCEPT !.lines = <<LogRow(status, pos, actual_md5)>>]
    /\ log_f' = <<>>

write_log_entry(status, pos, actual_md5) ==
    LET flushed == flush(writerow(LogRow(status, pos, actual_md5)))
    IN /\ log_file' = [log_file EXCEPT !.lines = flushed.disk]
       /\ log_f' = flushed.buffer

\* summary_stats[counter] += 1
Count(counter) ==
    summary_stats' = [summary_stats EXCEPT ![counter] = @ + 1]

\* history: one more call of the kind, and the failure it met (or "none")
Called(what, failure) ==
    calls' = [calls EXCEPT ![what] = @ + 1,
                           !.failures = IF failure = "none" THEN @ ELSE @ \cup {failure}]

\* (variant: the file is opened for writing, which empties it)
open_wb(content) == DTrunc

\* with open(file_path, "rb") as f: ... f.read(block_size): the content of the
\* file after calculate_md5 has opened and read it
open_rb(content) == content

\* the local file after calculate_md5(file_path): a path without a file is
\* not opened
after_calculate_md5(content) ==
    IF content = Absent THEN Absent ELSE open_rb(content)

\* (variant: a failed read gives no digest and reports no error)
calculate_md5_silent(content) ==
    IF content = Absent THEN {[md5 |-> None, error |-> FALSE]}
    ELSE {[md5 |-> content, error |-> FALSE], [md5 |-> None, error |-> FALSE]}

\* calculate_md5: <<digest, error>>, for a file of the given content. A file
\* that is not there always gives an error; a file that is there gives its
\* digest, or an error when reading it fails
calculate_md5(content) ==
    IF content = Absent THEN {[md5 |-> None, error |-> TRUE]}
    ELSE {[md5 |-> content, error |-> FALSE], [md5 |-> None, error |-> TRUE]}

\* responses of s3_client.head_object for an object in the given state
HeadResponses(state) ==
    (CASE state = "present" -> {[exc |-> "none", code |-> "", http |-> 200]}
       [] state = "notfound" -> {[exc |-> "ClientError", code |-> "404", http |-> 404],
                                 [exc |-> "ClientError", code |-> "NoSuchKey", http |-> 404]}
       [] state = "forbidden" -> {[exc |-> "ClientError", code |-> "403", http |-> 403],
                                  [exc |-> "ClientError", code |-> "AccessDenied", http |-> 403]})
    \cup {[exc |-> "ClientError", code |-> "SlowDown", http |-> 503],
          [exc |-> "Exception", code |-> "", http |-> 0]}

\* a classification that looks at the error code alone
check_s3_object_existence_by_code(resp) ==
    IF resp.exc = "none" THEN 0
    ELSE IF resp.exc = "ClientError"
         THEN IF resp.code = "404" \/ resp.code = "NoSuchKey" THEN 1
              ELSE IF resp.code = "403" THEN 2
              ELSE 3
         ELSE 4
\* check_s3_object_existence_for_download: status_code_enum 0..4
check_s3_object_existence_for_download(resp) ==
    IF resp.exc = "none" THEN 0
    ELSE IF resp.exc = "ClientError"
         THEN IF resp.code = "404" \/ resp.code = "NoSuchKey" \/ resp.http = 404 THEN 1
              ELSE IF resp.code = "403" \/ resp.http = 403 THEN 2
              ELSE 3
         ELSE 4

\* a pre-check that takes every object for present
s3_exists_always(s3_check_status_code) == TRUE
\* s3_exists, the first component of the pre-check's result
s3_exists(s3_check_status_code) == s3_check_status_code = 0

\* log_status chosen from s3_check_status_code
ProbeLogStatus(s3_check_status_code) ==
    IF s3_check_status_code = 1 THEN SKIPPED_REMOTE_NOT_FOUND
    ELSE IF s3_check_status_code = 2 THEN SKIPPED_REMOTE_FORBIDDEN
    ELSE SKIPPED_REMOTE_OTHER_ERROR

RECURSIVE Ascending(_)
\* the numbers of a set in increasing order (list order of a filtering loop)
Ascending(S) ==
    IF S = {} THEN <<>>
    ELSE LET m == CHOOSE x \in S : \A y \in S : x <= y
         IN <<m>> \o Ascending(S \ {m})

\* file_ext in allowed_extensions_set
ExtAllowed(entry, pieces) == FileExt(entry.name) \in allowed_extensions_set(pieces)

\* a filter that keeps every entry
FilterKept_all(fi, pieces) == Ascending(1..Len(fi))
\* the extension filter of main(): positions kept for download and positions
\* skipped; without a filter (or with an empty set) everything is kept
FilterKept(fi, pieces) ==
    IF allowed_extensions_set(pieces) = {} THEN Ascending(1..Len(fi))
    ELSE Ascending({k \in 1..Len(fi) : ExtAllowed(fi[k], pieces)})

FilterSkipped(fi, pieces) ==
    IF allowed_extensions_set(pieces) = {} THEN <<>>
    ELSE Ascending({k \in 1..Len(fi) : ~ExtAllowed(fi[k], pieces)})

\* (bug variant: range(args.retries), the first attempt taken out of the budget)
range_retries_short(retries) == 0..(retries - 1)

\* range(args.retries + 1): the values of the loop variable
range_retries(retries) == 0..retries

\* (variant: a wait follows every failed attempt, the last one too)
attempt_lt_retries_or_last(n, retries) == TRUE

\* "if attempt < args.retries": a failed attempt is followed by a wait
attempt_lt_retries(n, retries) == n < retries

\* (bug variant: sys.exit(1) where the loop should go on)
continue_exits == "exit1"

\* "continue": the position after an entry is given up or finished
continue == "next_entry"

\* (variant: the loop goes on to its sleep and its next attempt)
break_retries == "sleep"

\* "break" of the retry loop: the position after the loop
break == "after_loop"

(***************************************************************************)
(* main(): one action per step between two interactions with the world     *)
(***************************************************************************)
\* (variant: the result of the load is tested after the set-up)
sys_exit_after_setup == "setup"

\* "if not file_infos: sys.exit(1)", the statement after the call of
\* parse_manifest: where main() goes when the load gave None or no entry
sys_exit_1 == "exit1"

\* parse_manifest, "if not file_infos: sys.exit(1)" and the extension filter
LoadManifest ==
    /\ pc = "parse"
    /\ LET r == parse_manifest(manifest)
       IN IF r.none \/ r.files = <<>>
          THEN /\ pc' = sys_exit_1
               /\ UNCHANGED <<file_infos, to_download, skipped_ext>>
          ELSE /\ file_infos' = r.files
               /\ to_download' = FilterKept(r.files, args.allowed_extensions)
               /\ skipped_ext' = FilterSkipped(r.files, args.allowed_extensions)
               /\ pc' = "setup"
    /\ UNCHANGED <<tool_vars, retry_vars, run, first_verified, variant, args, manifest, remote, files, dirs, base_dirs,
                   log_file, log_f, i, attempt, download_success, last_exc, calls,
                   summary_stats>>

\* os.makedirs of the log and dataset directories, then the boto3 client
\* (with head_bucket in the pre-check variant); a failure of either exits
SetUp ==
    /\ pc = "setup"
    /\ \E outcome \in {"ok", "makedirs_error", "client_error"} :
          /\ base_dirs' = (base_dirs \/ outcome # "makedirs_error")
          /\ pc' = IF outcome = "ok" THEN "open_log" ELSE "exit1"
    /\ UNCHANGED <<tool_vars, retry_vars, run, first_verified, variant, args, manifest, remote, files, dirs, log_file, log_f,
                   file_infos, to_download, skipped_ext, i, attempt,
                   download_success, last_exc, calls, summary_stats>>

\* (variant: the log is opened in append mode)
open_a(lines) == lines

\* open(log_file_path, "w", ...): the lines of the file once it is opened,
\* whatever it held before (the header is written next)
open_w(lines) == <<>>

\* summary_stats is created; then open(log_file_path, "w") and writeheader():
\* the log holds the header only
OpenLog ==
    /\ pc = "open_log"
    /\ summary_stats' = [NoStats EXCEPT
                            !.skipped_extension_mismatch = Len(skipped_ext)]
    /\ log_file' = [exists |-> TRUE, lines |-> open_w(log_file.lines)]
    /\ log_f' = <<>>
    /\ pc' = IF skipped_ext # <<>> THEN "log_skipped" ELSE "next_entry"
    /\ UNCHANGED <<tool_vars, retry_vars, run, first_verified, variant, args, manifest, remote, files, dirs, base_dirs,
                   file_infos, to_download, skipped_ext, i, attempt,
                   download_success, last_exc, calls>>

\* the loop over skipped_due_to_extension: one record per iteration
LogSkipped ==
    /\ pc = "log_skipped"
    /\ LET j == Len(log_file.lines) + 1
       IN /\ write_log_entry(SKIPPED_EXTENSION_FILTERED, skipped_ext[j], NA)
          /\ pc' = IF j = Len(skipped_ext) THEN "next_entry" ELSE "log_skipped"
    /\ UNCHANGED <<tool_vars, retry_vars, run, first_verified, variant, args, manifest, remote, files, dirs, base_dirs,
                   file_infos, to_download, skipped_ext, i, attempt,
                   download_success, last_exc, calls, summary_stats>>

\* (variant: the loop takes its next entry before the MD5 check of this one)
for_head_or_verify == {"next_entry", "verify"}

\* the positions from which "for i, file_info in enumerate(...)" takes its
\* next entry: the end of the loop body and every "continue"
for_head == {"next_entry"}

\* head of "for i, file_info in enumerate(...)": the next entry, or the summary
NextEntry ==
    /\ pc \in for_head
    /\ IF i < Len(to_download)
       THEN /\ i' = i + 1
            /\ Count("processed")
            /\ calls' = [NoCalls EXCEPT !.local0 =
                            files[s3_key(file_infos[to_download[i + 1]].uuid,
                                         file_infos[to_download[i + 1]].name)]]
            /\ pc' = IF HasProbe(variant) THEN "probe" ELSE "mkdir"
            /\ UNCHANGED <<log_file, log_f>>
       \* the loop is over and the "with" block closes the log
       ELSE /\ pc' = "done"
            /\ log_file' = [log_file EXCEPT !.lines = @ \o log_f]
            /\ log_f' = <<>>
            /\ UNCHANGED <<i, calls, summary_stats>>
    \* the loop's locals are dead here (each is assigned again before it is read)
    /\ attempt' = 0
    /\ download_success' = FALSE
    /\ last_exc' = "none"
    /\ UNCHANGED <<tool_vars, retry_vars, run, first_verified, variant, args, manifest, remote, files, dirs, base_dirs,
                   file_infos, to_download, skipped_ext>>

\* the counter of a failed pre-check, by its status code
ProbeCounter(s3_check_status_code) ==
    IF s3_check_status_code = 1 THEN "skipped_s3_not_found"
    ELSE IF s3_check_status_code = 2 THEN "skipped_s3_forbidden"
    ELSE "skipped_s3_other_error"

\* the S3 pre-check of the entry and its three skip records
Probe ==
    /\ pc = "probe"
    /\ \E resp \in HeadResponses(remote[cur_key]) :
          LET s3_check_status_code == check_s3_object_existence_for_download(resp)
          IN /\ IF ~s3_exists(s3_check_status_code)
                THEN /\ Count(ProbeCounter(s3_check_status_code))
                     /\ write_log_entry(ProbeLogStatus(s3_check_status_code),
                                        to_download[i], NA)
                     /\ pc' = continue
                ELSE /\ pc' = "mkdir"
                     /\ UNCHANGED <<log_file, log_f, summary_stats>>
             /\ calls' = [calls EXCEPT
                            !.probe = @ + 1,
                            !.failures = IF s3_check_status_code # 0
                                         THEN @ \cup {"probe"} ELSE @,
                            !.head = resp]
    /\ UNCHANGED <<tool_vars, retry_vars, run, first_verified, variant, args, manifest, remote, files, dirs, base_dirs,
                   file_infos, to_download, skipped_ext, i, attempt,
                   download_success, last_exc>>

\* (variant: os.makedirs without exist_ok)
exist_ok_false == FALSE

\* the exist_ok argument of os.makedirs
exist_ok == TRUE

\* os.makedirs(target_data_uuid_dir, exist_ok=True): the OSError it raises,
\* if any. A directory that is there raises FileExistsError unless exist_ok;
\* any other fault of the file system can always occur
makedirs_error(there, fault) ==
    IF fault THEN "mkdir"
    ELSE IF there /\ ~exist_ok THEN "FileExistsError"
    ELSE "none"

\* os.makedirs(target_data_uuid_dir, exist_ok=True)
MakeDir ==
    /\ pc = "mkdir"
    /\ \E fault \in BOOLEAN :
          LET e == makedirs_error(file_info.uuid \in dirs, fault)
              os_error == e # "none"
          IN
          /\ IF os_error
             THEN /\ write_log_entry(FAILED_LOCAL_RESOURCE, to_download[i], NA)
                  /\ Count("failed_other")
                  /\ pc' = continue
                  /\ UNCHANGED dirs
             ELSE /\ dirs' = dirs \cup {file_info.uuid}
                  /\ pc' = "inspect"
                  /\ UNCHANGED <<log_file, log_f, summary_stats>>
          /\ Called("mkdir", e)
    /\ UNCHANGED <<tool_vars, retry_vars, run, first_verified, variant, args, manifest, remote, files, base_dirs,
                   file_infos, to_download, skipped_ext, i, attempt,
                   download_success, last_exc>>

\* (bug variant: any readable local file counts as verified)
LocalState_unchecked(r, expected_md5) ==
    IF r.error THEN "ReadError" ELSE "PresentVerified"

\* (bug variant: the digest never counts as equal, as when it is compared with
\* a checksum of another letter case)
LocalState_never_equal(r, expected_md5) ==
    IF r.error THEN "ReadError" ELSE "PresentMismatched"

\* the three branches on the MD5 of an existing local file
LocalState(r, expected_md5) ==
    IF r.error THEN "ReadError"
    ELSE IF r.md5 = expected_md5 THEN "PresentVerified"
    ELSE "PresentMismatched"

\* "if args.skip_existing and os.path.exists(local_file_path)": the local
\* file is checked; then the retry loop is set up
Inspect ==
    /\ pc = "inspect"
    /\ IF args.skip_existing /\ files[cur_key] # Absent
       THEN \E r \in calculate_md5(files[cur_key]) :
               /\ CASE LocalState(r, file_info.md5) = "ReadError" ->
                         /\ write_log_entry(FAILED_CHECKSUM_READ_ERROR,
                                            to_download[i], MD5_CALC_ERROR)
                         /\ Count("failed_md5_calc")
                         /\ pc' = "download"
                    [] LocalState(r, file_info.md5) = "PresentVerified" ->
                         /\ write_log_entry(SKIPPED_LOCAL_VERIFIED, to_download[i], r.md5)
                         /\ Count("skipped_md5_match")
                         /\ pc' = continue
                    [] LocalState(r, file_info.md5) = "PresentMismatched" ->
                         /\ pc' = "download"
                         /\ UNCHANGED <<log_file, log_f, summary_stats>>
               /\ Called("md5", IF r.error THEN "local_md5" ELSE "none")
               /\ files' = [files EXCEPT ![cur_key] = after_calculate_md5(@)]
       ELSE /\ pc' = "download"
            /\ UNCHANGED <<log_file, log_f, calls, summary_stats, files>>
    /\ attempt' = 0
    /\ download_success' = FALSE
    /\ last_exc' = "none"
    /\ UNCHANGED <<tool_vars, retry_vars, run, first_verified, variant, args, manifest, remote, dirs, base_dirs,
                   file_infos, to_download, skipped_ext, i>>

\* what a failed download_file call can leave at the local path: the file as
\* it was, or a truncated one
AfterFailedTransfer(content) == {content, DTrunc}

\* one iteration of "for attempt in range(args.retries + 1)", or the end of
\* the loop when the range is used up
Download ==
    /\ pc = "download"
    /\ IF attempt \notin range_retries(args.retries)
       THEN /\ pc' = "after_loop"
            /\ UNCHANGED <<files, download_success, last_exc, log_file, log_f, calls,
                           attempt, summary_stats>>
       ELSE \E outcome \in {"ok", "ClientError", "Exception"} :
               /\ Called("download", IF outcome = "ok" THEN "none" ELSE outcome)
               /\ CASE outcome = "ok" ->
                         /\ remote[cur_key] = "present"
                         /\ files' = [files EXCEPT ![cur_key] = RemoteDigest(cur_key)]
                         /\ download_success' = TRUE
                         /\ pc' = break
                         /\ UNCHANGED <<last_exc, log_file, log_f, attempt, summary_stats>>
                    [] outcome = "ClientError" ->
                         /\ \E c \in AfterFailedTransfer(files[cur_key]) :
                               files' = [files EXCEPT ![cur_key] = c]
                         /\ last_exc' = "client"
                         /\ UNCHANGED <<download_success, attempt>>
                         /\ IF attempt_lt_retries(attempt, args.retries)
                            THEN /\ pc' = "sleep"
                                 /\ UNCHANGED <<log_file, log_f, summary_stats>>
                            ELSE /\ pc' = "after_loop"
                                 /\ IF HasProbe(variant)
                                    THEN UNCHANGED <<log_file, log_f, summary_stats>>
                                    ELSE /\ write_log_entry(FAILED_TRANSFER,
                                                            to_download[i], NA)
                                         /\ Count("failed_aws_download")
                    [] outcome = "Exception" ->
                         /\ \E c \in AfterFailedTransfer(files[cur_key]) :
                               files' = [files EXCEPT ![cur_key] = c]
                         /\ last_exc' = "other"
                         /\ write_log_entry(FAILED_LOCAL_RESOURCE, to_download[i], NA)
                         /\ Count("failed_other")
                         /\ pc' = break
                         /\ UNCHANGED <<download_success, attempt>>
    /\ UNCHANGED <<tool_vars, retry_vars, run, first_verified, variant, args, manifest, remote, dirs, base_dirs,
                   file_infos, to_download, skipped_ext, i>>

\* time.sleep(args.retry_delay), then the next value of the loop variable
Sleep ==
    /\ pc = "sleep"
    /\ Called("sleep", "none")
    /\ attempt' = attempt + 1
    /\ pc' = "download"
    /\ UNCHANGED <<tool_vars, retry_vars, run, first_verified, variant, args, manifest, remote, files, dirs, base_dirs,
                   log_file, log_f, file_infos, to_download, skipped_ext, i,
                   download_success, last_exc, summary_stats>>

\* (variant: the record after the loop is written whatever the last message is)
in_last_exception_message_always(last) == TRUE

\* '"AWS S3...(download error)" in last_exception_message': the last message
\* set in the retry loop is the one of the ClientError branch
in_last_exception_message(last) == last = "client"

\* "if not download_success:" after the loop; the pre-check variant writes the
\* transfer-failure record here when the last message is a ClientError message
AfterLoop ==
    /\ pc = "after_loop"
    /\ IF ~download_success
       THEN /\ pc' = continue
            /\ IF HasProbe(variant) /\ in_last_exception_message(last_exc)
               THEN /\ write_log_entry(FAILED_TRANSFER, to_download[i], NA)
                    /\ Count("failed_aws_download")
               ELSE UNCHANGED <<log_file, log_f, summary_stats>>
       ELSE /\ pc' = "verify"
            /\ UNCHANGED <<log_file, log_f, summary_stats>>
    /\ UNCHANGED <<tool_vars, retry_vars, run, first_verified, variant, args, manifest, remote, files, dirs, base_dirs,
                   file_infos, to_download, skipped_ext, i, attempt,
                   download_success, last_exc, calls>>

\* (bug variant: a digest that differs is reported as a transfer failure)
VerifyStatus_as_transfer(r, expected_md5) ==
    IF r.error THEN FAILED_CHECKSUM_READ_ERROR
    ELSE IF r.md5 = expected_md5 THEN SUCCESS_VERIFIED
    ELSE FAILED_TRANSFER

\* the status of the MD5 check of the downloaded file
VerifyStatus(r, expected_md5) ==
    IF r.error THEN FAILED_CHECKSUM_READ_ERROR
    ELSE IF r.md5 = expected_md5 THEN SUCCESS_VERIFIED
    ELSE FAILED_INTEGRITY_MISMATCH

\* the counter of the branch of the MD5 check that is taken
VerifyCounter(r, expected_md5) ==
    IF r.error THEN "failed_md5_calc"
    ELSE IF r.md5 = expected_md5 THEN "successful_md5_match"
    ELSE "failed_md5_mismatch"

\* calculate_md5 of the downloaded file and its record
Verify ==
    /\ pc = "verify"
    /\ \E r \in calculate_md5(files[cur_key]) :
          /\ write_log_entry(VerifyStatus(r, file_info.md5), to_download[i],
                             IF r.error THEN MD5_CALC_ERROR ELSE r.md5)
          /\ Count(VerifyCounter(r, file_info.md5))
          /\ Called("md5", IF r.error THEN "md5"
                           ELSE IF r.md5 # file_info.md5 THEN "mismatch" ELSE "none")
    /\ files' = [files EXCEPT ![cur_key] = after_calculate_md5(@)]
    /\ pc' = "next_entry"
    /\ UNCHANGED <<tool_vars, retry_vars, run, first_verified, variant, args, manifest, remote, dirs, base_dirs,
                   file_infos, to_download, skipped_ext, i, attempt,
                   download_success, last_exc>>

Next ==
    \/ LoadManifest
    \/ SetUp
    \/ OpenLog
    \/ LogSkipped
    \/ NextEntry
    \/ Probe
    \/ MakeDir
    \/ Inspect
    \/ Download
    \/ Sleep
    \/ AfterLoop
    \/ Verify

Spec == Init /\ [][Next]_vars

TypeOK ==
    /\ pc \in {"parse", "exit1", "setup", "open_log", "log_skipped", "next_entry",
               "probe", "mkdir", "inspect", "download", "sleep", "after_loop",
               "verify", "done", "idle"}
    /\ i \in 0..Len(to_download)
    /\ retry_pc \in {"start", "exit0", "exit1", "written", "loaded"}

(***************************************************************************)
(* The retry-manifest generator: generate_retry_manifest.py                *)
(* A TSV file is [exists, fieldnames, rows]: its header line and its data  *)
(* rows, each a sequence of cells.                                         *)
(***************************************************************************)
\* a failure set that also selects the success status
failed_statuses_with_success ==
    {<<"FAILED_DOWNLOAD">>, <<"FAILED_INTEGRITY">>, <<"S3_CHECK_FAILED">>, <<"SUCCESS">>}
\* failed_statuses: the status texts the generator selects
failed_statuses ==
    {<<"FAILED_DOWNLOAD">>, <<"FAILED_INTEGRITY">>, <<"S3_CHECK_FAILED">>}

\* a header the downloader's parse_manifest does not know the id column of
retry_fieldnames_file_uuid == <<"file_uuid", "filename", "md5", "size", "state">>
\* fieldnames of the csv.DictWriter of the retry manifest
retry_fieldnames == <<"id", "filename", "md5", "size", "state">>

\* csv.DictWriter writes None as the empty string
CsvCell(v) == IF v = None THEN <<>> ELSE v

\* the value of the --failed-only flag: store_true with default True
failed_only == TRUE

\* row.get("Status", ""): the cell is None when the row is too short, and the
\* default only when the header has no such column
row_status(fieldnames, row) ==
    IF InSeq("Status", fieldnames) THEN RowGet(fieldnames, row, "Status") ELSE <<>>

\* the row is kept for the retry set
Selected(fieldnames, row) ==
    ~(failed_only /\ row_status(fieldnames, row) \notin failed_statuses)

\* (variant: the checksum is written in lower case)
retry_item_lower_md5(fieldnames, row) ==
    << CsvCell(RowGet(fieldnames, row, "UUID")),
       CsvCell(RowGet(fieldnames, row, "Filename")),
       Lower(CsvCell(RowGet(fieldnames, row, "Expected_MD5"))),
       NA,
       <<"retry_">> \o Lower(row_status(fieldnames, row)) >>
\* one dict of retry_items, as the row the DictWriter writes for it
retry_item(fieldnames, row) ==
    << CsvCell(RowGet(fieldnames, row, "UUID")),
       CsvCell(RowGet(fieldnames, row, "Filename")),
       CsvCell(RowGet(fieldnames, row, "Expected_MD5")),
       NA,
       <<"retry_">> \o Lower(row_status(fieldnames, row)) >>

RECURSIVE retry_items(_, _)
\* the loop over the log's rows
retry_items(fieldnames, rows) ==
    IF rows = <<>> THEN <<>>
    ELSE (IF Selected(fieldnames, Head(rows))
          THEN <<retry_item(fieldnames, Head(rows))>> ELSE <<>>)
         \o retry_items(fieldnames, Tail(rows))

\* (variant: an empty selection is written like any other)
nothing_to_retry_never(items) == FALSE
\* "if not retry_items": nothing was selected
nothing_to_retry(items) == items = <<>>

\* main() of the generator on the file log: exit 1 when the file is missing
\* or the output cannot be written, exit 0 without output when nothing is
\* selected, else the manifest is written
GenerateRetryManifest(log) ==
    /\ retry_pc = "start"
    /\ retry_log' = log
    /\ IF ~log.exists
       THEN retry_pc' = "exit1" /\ UNCHANGED retry_manifest
       ELSE LET items == retry_items(log.fieldnames, log.rows)
            IN IF nothing_to_retry(items)
               THEN retry_pc' = "exit0" /\ UNCHANGED retry_manifest
               ELSE \E outcome \in {"ok", "write_error"} :
                       IF outcome = "ok"
                       THEN /\ retry_manifest' = [exists |-> TRUE,
                                                  fieldnames |-> retry_fieldnames,
                                                  rows |-> items]
                            /\ retry_pc' = "written"
                       ELSE retry_pc' = "exit1" /\ UNCHANGED retry_manifest
    /\ UNCHANGED <<tool_vars, retry_file_infos, run, first_verified, variant, args, manifest,
                   remote, files, dirs, base_dirs, log_file, log_f, pc, file_infos,
                   to_download, skipped_ext, i, attempt, download_success,
                   last_exc, calls, summary_stats>>

\* the generator run on a log file of its own column layout
GenerateFromFile == GenerateRetryManifest(retry_log)

\* the downloader reads the manifest the generator wrote (--manifest <output>)
LoadRetryManifest ==
    /\ retry_pc = "written"
    /\ retry_file_infos' = parse_manifest([readable |-> TRUE,
                                           fieldnames |-> retry_manifest.fieldnames,
                                           rows |-> retry_manifest.rows])
    /\ retry_pc' = "loaded"
    /\ UNCHANGED <<tool_vars, retry_log, retry_manifest, run, first_verified, variant, args,
                   manifest, remote, files, dirs, base_dirs, log_file, log_f, pc,
                   file_infos, to_download, skipped_ext, i, attempt,
                   download_success, last_exc, calls, summary_stats>>

\* log_fieldnames of the downloader; the Chinese column titles are written
\* here by their pinyin ("UUID" and "S3_URI" are the titles themselves)
log_fieldnames ==
    <<"shijianchuo", "zhuangtai", "UUID", "wenjianming", "S3_URI", "bendilujing",
      "yuqiMD5", "shijiMD5", "wenjiandaxiao(manifest)", "xiaoxi">>

\* the row the log's csv.DictWriter writes for a record (timestamp, S3 URI,
\* local path and message are text the model does not look into)
LogLine(rec) ==
    << <<"timestamp">>, <<rec.status>>, rec.uuid, rec.name, <<"s3_uri">>,
       <<"local_path">>, rec.expected_md5, rec.actual_md5, rec.size, <<"message">> >>

\* the outcome log as the TSV file it is on disk
LogAsTsv(f) ==
    [exists |-> f.exists,
     fieldnames |-> log_fieldnames,
     rows |-> [k \in 1..Len(f.lines) |-> LogLine(f.lines[k])]]

\* the generator run on the log a finished downloader run has written
GenerateFromRunLog ==
    /\ pc = "done"
    /\ GenerateRetryManifest(LogAsTsv(log_file))

\* log files in the column layout the generator reads
GenHeader == <<"Status", "UUID", "Filename", "Expected_MD5">>
StatusPool ==
    {<<"FAILED_DOWNLOAD">>, <<"S3_CHECK_FAILED">>, <<"FAILED_INTEGRITY">>,
     <<"SUCCESS">>, <<"SKIPPED_EXTENSION">>, <<"failed_download">>}
RecordPool ==
    {<<st, U1, NameBam, <<"AB12">> >> : st \in StatusPool}
    \cup { <<<<"FAILED_DOWNLOAD">>, U2, NameSvs, <<>> >>,     \* no checksum
           <<<<"S3_CHECK_FAILED">>, <<>>, NameSvs, D2>>,      \* no UUID
           <<<<"FAILED_DOWNLOAD">>, U2>> }                    \* a short row
RetryLogs ==
    {[exists |-> TRUE, fieldnames |-> h, rows |-> r] :
        h \in {GenHeader, <<"Status", "UUID", "Filename">>},
        r \in SeqsUpTo(RecordPool, MaxRecords)}
    \cup {NoFile, [exists |-> TRUE, fieldnames |-> <<>>, rows |-> <<>>]}

\* a manifest left at the output path by an earlier run of the generator
StaleManifest ==
    [exists |-> TRUE, fieldnames |-> retry_fieldnames,
     rows |-> << <<U2, NameSvs, D2, NA, <<"retry_", "failed_download">> >> >>]

\* the generator started on a log file; no downloader is running
InitRetry ==
    /\ retry_pc = "start"
    /\ retry_log \in RetryLogs
    /\ retry_manifest \in {NoFile, StaleManifest}
    /\ retry_file_infos = LoadError
    /\ variant = "ok"
    /\ args = [skip_existing |-> FALSE, retries |-> 0, allowed_extensions |-> <<>>]
    /\ manifest = [readable |-> FALSE, fieldnames |-> <<>>, rows |-> <<>>]
    /\ remote = [k \in Keys |-> "present"]
    /\ files = [k \in Keys |-> Absent]
    /\ dirs = {}
    /\ base_dirs = FALSE
    /\ log_file = [exists |-> FALSE, lines |-> <<>>]
    /\ pc = "idle"
    /\ file_infos = <<>>
    /\ to_download = <<>>
    /\ skipped_ext = <<>>
    /\ i = 0
    /\ attempt = 0
    /\ download_success = FALSE
    /\ last_exc = "none"
    /\ calls = NoCalls
    /\ log_f = <<>>
    /\ summary_stats = NoStats
    /\ run = "first"
    /\ first_verified = FALSE
    /\ ToolsIdle

NextRetry == GenerateFromFile \/ LoadRetryManifest

\* the generator, then the downloader's loading of what it wrote
SpecRetry == InitRetry /\ [][NextRetry]_vars

NextRunRetry == Next \/ GenerateFromRunLog

\* a downloader run, then the generator on the log of that run
SpecRunRetry == Init /\ [][NextRunRetry]_vars

\* manifests whose checksum cells differ in letter case and in surrounding
\* whitespace: "AB12", " ab12 " and "cd34 "
PaddedRowPool ==
    { <<U1, NameBam, <<"AB12">>, <<"10">> >>,
      <<U1, NameBam, <<" ", "ab12", " ">>, <<"10">> >>,
      <<U2, NameSvs, <<"cd34", " ">>, <<"20">> >> }
PaddedManifests ==
    {[readable |-> TRUE, fieldnames |-> GoodHeader, rows |-> r] :
        r \in SeqsUpTo(PaddedRowPool, MaxEntries)}

\* runs of the downloader over those manifests
SpecPadded == InitOver(PaddedManifests) /\ [][Next]_vars

\* manifests with incomplete rows and with headers that name the columns by
\* their aliases, leave the size column out, or lack a mandatory column
NoSizeHeader == <<"uuid", "file_name", "md5sum">>
RaggedRowPool ==
    { <<U1, NameBam, <<"AB12">>, <<"10">> >>,
      <<U2, NameSvs, D2, <<"20">> >>,
      <<<<>>, NameBam, D1, <<"10">> >>,          \* empty id
      <<U1, <<>>, D1, <<"10">> >>,               \* empty file name
      <<U1, NameBam>> }                          \* row too short: no checksum cell
RaggedManifests ==
    {[readable |-> TRUE, fieldnames |-> h, rows |-> r] :
        h \in {GoodHeader, NoSizeHeader},
        r \in SeqsUpTo(RaggedRowPool, MaxEntries)}
    \cup {[readable |-> TRUE, fieldnames |-> h,
           rows |-> << <<U1, NameBam, <<"AB12">>, <<"10">> >> >>] :
             h \in {<<>>, <<"id", "filename", "size">>, <<"id", "md5", "size">>,
                    <<"filename", "md5", "size">>}}
    \cup {[readable |-> FALSE, fieldnames |-> GoodHeader,
           rows |-> << <<U1, NameBam, <<"AB12">>, <<"10">> >> >>]}

\* runs of the downloader over those manifests
\* the scripts started on a ragged manifest, with one retry allowed (the
\* loading of the manifest does not depend on the retry budget)
InitRagged == InitOver(RaggedManifests) /\ args.retries = 1

SpecRagged == InitRagged /\ [][Next]_vars

\* manifests whose header names a field by more than one of its aliases, in
\* several column orders; the cells of a row differ from alias to alias
AliasHeaders ==
    { <<"uuid", "id", "file_name", "filename", "md5sum", "md5", "file_size", "size">>,
      <<"id", "uuid", "filename", "file_name", "md5", "md5sum", "size", "file_size">>,
      <<"file_id", "uuid", "file_name", "md5sum", "file_size">>,
      <<"file_id", "filename", "md5", "id", "size">>,
      <<"md5sum", "md5", "file_name", "file_id">> }
AliasCell(kind, col) ==
    IF kind = "a"
    THEN CASE col = "id" -> U1
           [] col = "uuid" -> U2
           [] col = "file_id" -> U2
           [] col = "filename" -> NameBam
           [] col = "file_name" -> NameSvs
           [] col = "md5" -> <<"AB12">>
           [] col = "md5sum" -> D2
           [] col = "size" -> <<"10">>
           [] col = "file_size" -> <<"20">>
    ELSE CASE col = "id" -> U2
           [] col = "uuid" -> U1
           [] col = "file_id" -> U2
           [] col = "filename" -> NameSvs
           [] col = "file_name" -> NameBam
           [] col = "md5" -> D2
           [] col = "md5sum" -> <<"AB12">>
           [] col = "size" -> <<"20">>
           [] col = "file_size" -> <<"10">>
AliasRow(h, kind) == [c \in 1..Len(h) |-> AliasCell(kind, h[c])]
AliasManifests ==
    {[readable |-> TRUE, fieldnames |-> h,
      rows |-> [k \in 1..Len(kinds) |-> AliasRow(h, kinds[k])]] :
        h \in AliasHeaders, kinds \in SeqsUpTo({"a", "b"}, MaxEntries)}
\* every pairing of an id with a file name of those manifests
AliasKeys == {s3_key(u, n) : u \in {U1, U2}, n \in {NameBam, NameSvs}}

\* the scripts started on such a manifest, every object present in the bucket,
\* no local file, one retry allowed (the loading of the manifest depends on
\* none of them)
InitAliased ==
    /\ remote = [k \in AliasKeys |-> "present"]
    /\ files = [k \in AliasKeys |-> Absent]
    /\ InitIn(Variants, AliasManifests, AliasKeys)
    /\ args.retries = 1

SpecAliased == InitAliased /\ [][Next]_vars

\* runs of the two scripts that have the extension filter
SpecFiltered == InitWith(FilterVariants, Manifests) /\ [][Next]_vars

(***************************************************************************)
(* Vocabulary of the properties                                            *)
(***************************************************************************)
\* the records this run has written (before OpenLog the file holds, at most,
\* records of an earlier run)
RunLog == IF pc \in {"parse", "setup", "open_log", "exit1"} THEN <<>> ELSE log_file.lines

\* the records of this run for the working-set entry at position pos
RecordsOf(pos) == {k \in 1..Len(RunLog) : RunLog[k].pos = pos}

\* the per-entry loop has just finished the entry at i
EntryEnded == pc = "next_entry" /\ i >= 1

\* position in the working set of the entry at i
cur_pos == to_download[i]

LastRecord == RunLog[Len(RunLog)]

VerifiedStatuses == {SUCCESS_VERIFIED, SKIPPED_LOCAL_VERIFIED}

(***************************************************************************)
(* A second run of the same command over the same directory                *)
(***************************************************************************)
\* every working-set entry has records, all of them with a verified status
AllVerified ==
    \A pos \in 1..Len(file_infos) :
        /\ RecordsOf(pos) # {}
        /\ \A k \in RecordsOf(pos) : RunLog[k].status \in VerifiedStatuses

\* the command is started again after a completed run: same manifest, same
\* arguments, same bucket, and the local files and the log as the run left them
Rerun ==
    /\ pc = "done"
    /\ run = "first"
    /\ run' = "second"
    /\ first_verified' = AllVerified
    /\ pc' = "parse"
    /\ file_infos' = <<>>
    /\ to_download' = <<>>
    /\ skipped_ext' = <<>>
    /\ i' = 0
    /\ calls' = NoCalls
    /\ summary_stats' = NoStats
    /\ UNCHANGED <<tool_vars, retry_vars, variant, args, manifest, remote, files, dirs,
                   base_dirs, log_file, log_f, attempt, download_success, last_exc>>

\* two runs with --skip-existing enabled, over a manifest that loads and whose
\* rows are all complete, with a retry budget that is not negative; a missing
\* object is "notfound" (a forbidden one takes the same path with another
\* status name), the output directory exists exactly when it holds files, and
\* a local file is damaged only by a failed transfer of the first run
InitTwice ==
    /\ Init
    /\ args.skip_existing
    /\ args.retries >= 0
    /\ manifest.readable
    /\ manifest.fieldnames = GoodHeader
    /\ \A k \in 1..Len(manifest.rows) : \A c \in 1..3 : manifest.rows[k][c] # <<>>
    /\ \A k \in Keys : remote[k] # "forbidden" /\ files[k] # DTrunc
    /\ base_dirs = (\E k \in Keys : files[k] # Absent)

NextTwice == Next \/ Rerun

SpecTwice == InitTwice /\ [][NextTwice]_vars

(***************************************************************************)
(* C6: idempotence of a second run with --skip-existing                    *)
(***************************************************************************)
\* statuses that record a failure met by the run itself (a transient fault of
\* the probe, of the local disk or of the transfer) or the extension filter
ExcusedStatuses ==
    {SKIPPED_EXTENSION_FILTERED, SKIPPED_REMOTE_OTHER_ERROR, FAILED_LOCAL_RESOURCE,
     FAILED_CHECKSUM_READ_ERROR, FAILED_TRANSFER}

\* C6 (as claimed): the second of two runs with --skip-existing over the same
\* catalog, directory and bucket makes no download attempt and writes a
\* SKIPPED_LOCAL_VERIFIED record for every entry. (Stated in the claim's
\* favour: entries dropped by the extension filter, and a second run that
\* records a fault of its own, are not held against it.)
C6_SecondRunAllSkipped ==
    run = "second" =>
        /\ \A k \in 1..Len(RunLog) :
              RunLog[k].status \in {SKIPPED_LOCAL_VERIFIED} \cup ExcusedStatuses
        /\ (\A k \in 1..Len(RunLog) : RunLog[k].status \notin ExcusedStatuses) =>
              calls.download = 0

\* a probe error, a directory-creation error or a local read error has been
\* recorded in this run
FaultRecorded ==
    \E k \in 1..Len(RunLog) :
        RunLog[k].status \in {SKIPPED_REMOTE_OTHER_ERROR, FAILED_LOCAL_RESOURCE,
                              FAILED_CHECKSUM_READ_ERROR}

\* C6 (amended): if the first run recorded every entry as SUCCESS_VERIFIED or
\* SKIPPED_LOCAL_VERIFIED, then the second run, as long as none of its own
\* probes, directory creations or local reads fails, makes no download attempt
\* and writes only SKIPPED_LOCAL_VERIFIED records, one per entry when it ends.
C6_SecondRunSkipsVerified ==
    (run = "second" /\ first_verified /\ ~FaultRecorded) =>
        /\ calls.download = 0
        /\ \A k \in 1..Len(RunLog) : RunLog[k].status = SKIPPED_LOCAL_VERIFIED
        /\ pc = "done" =>
              \A pos \in 1..Len(file_infos) : Cardinality(RecordsOf(pos)) = 1

\* a second run over two entries, both downloaded and verified by the first
\* run (no local file existed before it), has skipped both
C6_Witness ==
    /\ run = "second"
    /\ first_verified
    /\ pc = "done"
    /\ Len(RunLog) = 2
    /\ \A k \in 1..Len(RunLog) : RunLog[k].status = SKIPPED_LOCAL_VERIFIED
    /\ RunLog[1].pos # RunLog[2].pos

(***************************************************************************)
(* C1: exactly one outcome record per working-set entry in a completed run  *)
(***************************************************************************)
\* C1 (as claimed): when a run with --retries >= 0 has reached its summary,
\* every entry of the working set has exactly one record in the log.
C1_ExactlyOneRecord ==
    (pc = "done" /\ args.retries >= 0) =>
        \A pos \in 1..Len(file_infos) : Cardinality(RecordsOf(pos)) = 1

(***************************************************************************)
(* C2: retry bound                                                         *)
(***************************************************************************)
\* C2: with --retries = N >= 0, an entry never gets more than N+1 download
\* attempts; an entry all of whose attempts failed with a ClientError got
\* exactly N+1 attempts and its last record is FAILED_TRANSFER, written once;
\* and FAILED_TRANSFER is recorded for an entry only after N+1 attempts.
C2_RetryBound ==
    args.retries >= 0 =>
        /\ calls.download <= args.retries + 1
        /\ (EntryEnded /\ ~download_success /\ last_exc = "client") =>
              /\ calls.download = args.retries + 1
              /\ RunLog # <<>>
              /\ LastRecord.pos = cur_pos
              /\ LastRecord.status = FAILED_TRANSFER
              /\ Cardinality({k \in RecordsOf(cur_pos) :
                                 RunLog[k].status = FAILED_TRANSFER}) = 1
        /\ (i >= 1 /\ \E k \in RecordsOf(cur_pos) : RunLog[k].status = FAILED_TRANSFER) =>
              /\ calls.download = args.retries + 1
              /\ "ClientError" \in calls.failures

\* an entry with --retries >= 1 ended in FAILED_TRANSFER after its retries
C2_Witness ==
    /\ EntryEnded
    /\ args.retries >= 1
    /\ ~download_success
    /\ last_exc = "client"
    /\ calls.download = args.retries + 1
    /\ LastRecord.status = FAILED_TRANSFER

(***************************************************************************)
(* C3: a per-entry failure never stops the run                             *)
(***************************************************************************)
\* C3: the run exits early only before the first entry (load or set-up
\* failure); once the per-entry loop has started, whatever fails for an entry,
\* the entry ends with a record of its own and the loop goes on, so that the
\* summary is reached only after every entry of the download list was taken up.
C3_FailuresAbsorbed ==
    /\ pc = "exit1" => (i = 0 /\ RunLog = <<>> /\ calls = NoCalls)
    /\ pc = "done" => i = Len(to_download)
    /\ (EntryEnded /\ calls.failures # {}) => RecordsOf(cur_pos) # {}
    /\ (pc = "done" /\ args.retries >= 0) =>
          \A k \in 1..Len(to_download) : RecordsOf(to_download[k]) # {}

\* the summary is reached although the first of two entries failed
C3_Witness ==
    /\ pc = "done"
    /\ Len(to_download) = 2
    /\ \E k \in RecordsOf(to_download[1]) :
          RunLog[k].status \in {SKIPPED_REMOTE_NOT_FOUND, FAILED_LOCAL_RESOURCE,
                                FAILED_TRANSFER, FAILED_CHECKSUM_READ_ERROR,
                                FAILED_INTEGRITY_MISMATCH}
    /\ RecordsOf(to_download[2]) # {}

(***************************************************************************)
(* C4: the two verified statuses                                           *)
(***************************************************************************)
\* C4: every record with status SUCCESS_VERIFIED or SKIPPED_LOCAL_VERIFIED has
\* its actual-MD5 field equal to its expected-MD5 field; when the entry ends
\* with such a record, the digest was computed in this run (calculate_md5 was
\* called for the entry) and the local file's digest is the expected checksum;
\* and an entry recorded SKIPPED_LOCAL_VERIFIED had no download attempt.
C4_VerifiedMeansDigestEqual ==
    /\ \A k \in 1..Len(RunLog) :
          RunLog[k].status \in VerifiedStatuses =>
              RunLog[k].actual_md5 = RunLog[k].expected_md5
    /\ (EntryEnded /\ \E k \in RecordsOf(cur_pos) : RunLog[k].status \in VerifiedStatuses) =>
          /\ calls.md5 >= 1
          /\ files[cur_key] = file_info.md5
          /\ LastRecord.pos = cur_pos
          /\ LastRecord.status \in VerifiedStatuses
    /\ (i >= 1 /\ \E k \in RecordsOf(cur_pos) : RunLog[k].status = SKIPPED_LOCAL_VERIFIED) =>
          calls.download = 0

\* both statuses occur in one run
C4_Witness ==
    /\ pc = "done"
    /\ \E k \in 1..Len(RunLog) : RunLog[k].status = SUCCESS_VERIFIED
    /\ \E k \in 1..Len(RunLog) : RunLog[k].status = SKIPPED_LOCAL_VERIFIED

(***************************************************************************)
(* C5: after a successful download the digest decides the status           *)
(***************************************************************************)
\* C5: when an entry ends after a successful download attempt, its last
\* record is SUCCESS_VERIFIED exactly if the local digest equals the expected
\* checksum and FAILED_INTEGRITY_MISMATCH exactly if a digest was computed and
\* differs (no digest at all is FAILED_CHECKSUM_READ_ERROR); the entry has no
\* FAILED_TRANSFER record.
C5_DigestDecides ==
    (EntryEnded /\ download_success) =>
        /\ RunLog # <<>>
        /\ LastRecord.pos = cur_pos
        /\ \A k \in RecordsOf(cur_pos) : RunLog[k].status # FAILED_TRANSFER
        /\ IF LastRecord.actual_md5 = MD5_CALC_ERROR
           THEN LastRecord.status = FAILED_CHECKSUM_READ_ERROR
           ELSE /\ LastRecord.actual_md5 = files[cur_key]
                /\ LastRecord.status = IF files[cur_key] = file_info.md5
                                       THEN SUCCESS_VERIFIED
                                       ELSE FAILED_INTEGRITY_MISMATCH

\* a successful download after a failed attempt, with a digest that differs
C5_Witness ==
    /\ EntryEnded
    /\ download_success
    /\ calls.download >= 2
    /\ LastRecord.status = FAILED_INTEGRITY_MISMATCH

\* a successful download with the expected digest
C5_WitnessMatch ==
    /\ EntryEnded
    /\ download_success
    /\ LastRecord.status = SUCCESS_VERIFIED

(***************************************************************************)
(* C7, C8, C9: the retry-manifest generator                                *)
(***************************************************************************)
\* the generator has ended
RetryEnded == retry_pc \in {"exit0", "exit1", "written", "loaded"}
\* the status cell of row k of the log the generator was given
StatusAt(k) == row_status(retry_log.fieldnames, retry_log.rows[k])
\* the log's rows whose status is in the default failure set
FailedRows ==
    {k \in 1..Len(retry_log.rows) :
        StatusAt(k) \in {<<"FAILED_DOWNLOAD">>, <<"FAILED_INTEGRITY">>,
                         <<"S3_CHECK_FAILED">>}}
\* every record of the log is a transfer failure or an existence failure
OnlyTransferAndExistence ==
    /\ retry_log.exists
    /\ retry_log.rows # <<>>
    /\ \A k \in 1..Len(retry_log.rows) :
          StatusAt(k) \in {<<"FAILED_DOWNLOAD">>, <<"S3_CHECK_FAILED">>}
\* a log cell as it is on disk (a cell the row does not have reads as empty)
LogCell(k, col) == CsvCell(RowGet(retry_log.fieldnames, retry_log.rows[k], col))

C7_WitnessDropped ==
    /\ retry_pc = "written"
    /\ \E k \in 1..Len(retry_log.rows) : StatusAt(k) = <<"SUCCESS">>
    /\ Len(retry_manifest.rows) = 1

\* the records of the run's log that are transfer or remote-existence failures
RunFailures ==
    {k \in 1..Len(log_file.lines) :
        log_file.lines[k].status \in {FAILED_TRANSFER, SKIPPED_REMOTE_NOT_FOUND}}

\* C8: run on the log a downloader run has written, the generator outputs one
\* row for every record whose status is a transfer failure or a
\* remote-existence failure (so it does not end with nothing to retry when
\* the log has such a record).
C8_RunLogFeedsGenerator ==
    (pc = "done" /\ retry_pc \in {"exit0", "written"}) =>
        Len(retry_manifest.rows) = Cardinality(RunFailures)

\* the rows the generator wrote all have an id, a file name and a checksum
RowsComplete ==
    \A k \in 1..Len(retry_manifest.rows) :
        \A c \in 1..3 : retry_manifest.rows[k][c] # <<>>
\* loading gives one entry per written row, in order, with the row's values
LoadedAsWritten ==
    /\ ~retry_file_infos.none
    /\ Len(retry_file_infos.files) = Len(retry_manifest.rows)
    /\ \A k \in 1..Len(retry_manifest.rows) :
          /\ retry_file_infos.files[k].uuid = retry_manifest.rows[k][1]
          /\ retry_file_infos.files[k].name = retry_manifest.rows[k][2]
          /\ retry_file_infos.files[k].md5 = Lower(retry_manifest.rows[k][3])

\* C9 (as claimed): every retry manifest the generator writes loads into as
\* many entries as it has rows, in order, with the same id and name and the
\* lower-cased checksum.
C9_EveryRetryManifestLoads == (retry_pc = "loaded") => LoadedAsWritten

\* C9 (amended): a retry manifest the generator writes from records that all
\* have a UUID, a file name and an expected checksum loads into as many
\* entries as it has rows, in order, with the same id and name and the
\* lower-cased checksum.
C9_CompleteRetryManifestLoads ==
    (retry_pc = "loaded" /\ RowsComplete) => LoadedAsWritten

\* a manifest of two complete rows with an upper-case checksum has been loaded
C9_Witness ==
    /\ retry_pc = "loaded"
    /\ RowsComplete
    /\ Len(retry_manifest.rows) = 2
    /\ retry_manifest.rows[1][3] = <<"AB12">>
    /\ Len(retry_file_infos.files) = 2

(***************************************************************************)
(* C10: checksum normalization                                             *)
(***************************************************************************)
\* records written after the digest of the local file was compared with the
\* expected value
ComparedStatuses == {SUCCESS_VERIFIED, SKIPPED_LOCAL_VERIFIED, FAILED_INTEGRITY_MISMATCH}

\* C10: two expected checksums that differ only in letter case or in
\* surrounding whitespace give the same verification result against the same
\* computed digest: of two records with such expected values and the same
\* actual digest, either both are verified or both are mismatches.
C10_CaseAndSpaceInsensitive ==
    \A a, b \in 1..Len(RunLog) :
        ( /\ RunLog[a].status \in ComparedStatuses
          /\ RunLog[b].status \in ComparedStatuses
          /\ Strip(Lower(RunLog[a].expected_md5)) = Strip(Lower(RunLog[b].expected_md5))
          /\ RunLog[a].actual_md5 = RunLog[b].actual_md5 )
        => (RunLog[a].status \in VerifiedStatuses <=> RunLog[b].status \in VerifiedStatuses)

(***************************************************************************)
(* C11: rows without an id, a file name or a checksum                      *)
(***************************************************************************)
\* the manifest has been loaded and the run has gone on
Loaded == pc \notin {"parse", "exit1", "idle"}
\* row k of the manifest has a non-empty cell in each of the first three
\* columns (id, file name, checksum in the headers of the model)
RowComplete(k) ==
    /\ Len(manifest.rows[k]) >= 3
    /\ \A c \in 1..3 : manifest.rows[k][c] # <<>>
CompleteRows == Ascending({k \in 1..Len(manifest.rows) : RowComplete(k)})

\* C11: the working set is the manifest's complete rows, in order, and
\* nothing else: a row with a missing or empty id, file name or checksum is
\* not in it, so no record, probe or download is ever about it, and the rows
\* after it are still loaded.
C11_IncompleteRowsLeftOut ==
    Loaded =>
        /\ Len(file_infos) = Len(CompleteRows)
        /\ \A j \in 1..Len(file_infos) :
              /\ file_infos[j].uuid = manifest.rows[CompleteRows[j]][1]
              /\ file_infos[j].name = manifest.rows[CompleteRows[j]][2]
              /\ file_infos[j].md5 = Lower(manifest.rows[CompleteRows[j]][3])
        /\ \A k \in 1..Len(RunLog) :
              /\ RunLog[k].pos \in 1..Len(file_infos)
              /\ RunLog[k].uuid # <<>> /\ RunLog[k].uuid # None
              /\ RunLog[k].name # <<>> /\ RunLog[k].name # None
              /\ RunLog[k].expected_md5 # <<>> /\ RunLog[k].expected_md5 # None
        /\ (calls.probe + calls.download > 0) => i \in 1..Len(to_download)

\* a run over a manifest whose first row is incomplete and whose second row
\* is complete has finished with a record for the second row
C11_Witness ==
    /\ pc = "done"
    /\ Len(manifest.rows) = 2
    /\ ~RowComplete(1)
    /\ RowComplete(2)
    /\ Len(file_infos) = 1
    /\ Len(RunLog) >= 1

(***************************************************************************)
(* C12: the extension filter                                               *)
(***************************************************************************)
\* the filter of the model's command lines, " .BAM", allows the extension bam
\* whatever its letter case; the extension is the name's text after its last dot
FilteredOut(p) ==
    /\ args.allowed_extensions # <<>>
    /\ Lower(<<file_infos[p].name[Len(file_infos[p].name)]>>) # <<"bam">>
\* the loop over the skipped entries is over
SkipsLogged == pc \in {"next_entry", "probe", "mkdir", "inspect", "download",
                       "sleep", "after_loop", "verify", "done"}

\* C12: with an extension filter set, an entry whose extension is not in the
\* set is never the entry the per-entry loop works on (so no probe, directory
\* creation or download is made for it), and once the skip records are
\* written it has exactly one record, SKIPPED_EXTENSION_FILTERED.
C12_FilteredEntrySkipped ==
    \A p \in 1..Len(file_infos) :
        FilteredOut(p) =>
            /\ (i >= 1 => to_download[i] # p)
            /\ \A k \in RecordsOf(p) : RunLog[k].status = SKIPPED_EXTENSION_FILTERED
            /\ SkipsLogged => Cardinality(RecordsOf(p)) = 1

\* a run with the filter over a manifest with a .bam entry and a .SVS entry
\* has finished: the .SVS entry has its skip record, the .bam entry another
C12_Witness ==
    /\ pc = "done"
    /\ Len(file_infos) = 2
    /\ FilteredOut(2)
    /\ ~FilteredOut(1)
    /\ \E k \in RecordsOf(2) : RunLog[k].status = SKIPPED_EXTENSION_FILTERED
    /\ RecordsOf(1) # {}

(***************************************************************************)
(* C13, C14: the S3 pre-check                                              *)
(***************************************************************************)
\* the pre-check of the entry at i has just failed
ProbeFailed == pc = "next_entry" /\ i >= 1 /\ "probe" \in calls.failures
\* the head_object response was a service error equivalent to 404 / to 403
Is404 ==
    /\ calls.head.exc = "ClientError"
    /\ calls.head.code \in {"404", "NoSuchKey"} \/ calls.head.http = 404
Is403 ==
    /\ calls.head.exc = "ClientError"
    /\ ~Is404
    /\ calls.head.code = "403" \/ calls.head.http = 403

\* C13: a failed pre-check is recorded by the kind of the response: a
\* 404-equivalent service error as SKIPPED_REMOTE_NOT_FOUND, a 403-equivalent
\* one as SKIPPED_REMOTE_FORBIDDEN, every other failure (another service
\* error, or an exception that is no service error) as
\* SKIPPED_REMOTE_OTHER_ERROR; a response without error fails no pre-check.
C13_ProbeClassification ==
    /\ ProbeFailed =>
          /\ calls.head.exc # "none"
          /\ LastRecord.pos = cur_pos
          /\ LastRecord.status =
                IF Is404 THEN SKIPPED_REMOTE_NOT_FOUND
                ELSE IF Is403 THEN SKIPPED_REMOTE_FORBIDDEN
                ELSE SKIPPED_REMOTE_OTHER_ERROR
    /\ (calls.probe = 1 /\ calls.head.exc = "none") => "probe" \notin calls.failures

\* a pre-check answered "AccessDenied" with HTTP status 403 has been recorded
\* as forbidden
C13_Witness ==
    /\ ProbeFailed
    /\ calls.head.code = "AccessDenied"
    /\ LastRecord.status = SKIPPED_REMOTE_FORBIDDEN

\* C13: a pre-check that raised an exception of no service error has been
\* recorded as an other error
C13_WitnessException ==
    /\ ProbeFailed
    /\ calls.head.exc = "Exception"
    /\ LastRecord.status = SKIPPED_REMOTE_OTHER_ERROR

\* C14: an entry whose pre-check failed is probed once, gets no directory
\* creation and no download attempt, and ends with one record, which has one
\* of the three SKIPPED_REMOTE statuses; no entry is probed twice.
C14_ProbeFailureTerminal ==
    /\ calls.probe <= 1
    /\ "probe" \in calls.failures =>
          /\ pc \in {"next_entry", "done"}
          /\ calls.probe = 1
          /\ calls.mkdir = 0
          /\ calls.download = 0
          /\ Cardinality(RecordsOf(cur_pos)) = 1
          /\ LastRecord.pos = cur_pos
          /\ LastRecord.status \in {SKIPPED_REMOTE_NOT_FOUND, SKIPPED_REMOTE_FORBIDDEN,
                                    SKIPPED_REMOTE_OTHER_ERROR}

\* the first of two entries has failed its pre-check with a retry budget left,
\* and the run has gone on to finish the second entry
C14_Witness ==
    /\ pc = "done"
    /\ args.retries >= 1
    /\ Len(to_download) = 2
    /\ \E k \in RecordsOf(to_download[1]) : RunLog[k].status = SKIPPED_REMOTE_NOT_FOUND
    /\ RecordsOf(to_download[2]) # {}

(***************************************************************************)
(* C15, C16: load errors and empty working sets                            *)
(***************************************************************************)
\* the header names a column for the field by one of its aliases
HasAlias(aliases) == \E c \in aliases : InSeq(c, manifest.fieldnames)
\* the three reasons for which the load fails as a whole
LoadFails ==
    \/ ~manifest.readable
    \/ manifest.fieldnames = <<>>
    \/ ~HasAlias({"id", "uuid", "file_id"})
    \/ ~HasAlias({"filename", "file_name"})
    \/ ~HasAlias({"md5", "md5sum"})
\* main() has gone past its call of parse_manifest
PastLoad == pc \notin {"parse", "idle"}
\* no log has been opened and no record written by this run
NothingRecorded ==
    /\ log_file.lines \in {<<>>, <<StaleRecord>>}
    /\ log_file.exists = (log_file.lines # <<>>)

\* C15: when the manifest is unreadable, has an empty header or lacks a column
\* for id, file name or checksum, the run stops at the load, whatever its
\* rows are: no working set, no probe, no download, no record. A manifest
\* that lacks the size column only is loaded: its complete rows become
\* entries (of size "N/A").
C15_LoadErrorIsFatal ==
    /\ (PastLoad /\ LoadFails) =>
          /\ pc = "exit1"
          /\ file_infos = <<>>
          /\ i = 0
          /\ calls = NoCalls
          /\ NothingRecorded
    /\ (PastLoad /\ ~LoadFails /\ ~HasAlias({"size", "file_size"})) =>
          /\ Len(file_infos) = Len(CompleteRows)
          /\ \A j \in 1..Len(file_infos) : file_infos[j].size = NA

\* a manifest with a complete row but no checksum column has stopped the run
C15_Witness ==
    /\ pc = "exit1"
    /\ manifest.fieldnames = <<"id", "filename", "size">>
    /\ Len(manifest.rows) = 1
    /\ RowComplete(1)

\* C15: a run over a manifest without a size column has finished with a record
C15_WitnessNoSize ==
    /\ pc = "done"
    /\ manifest.fieldnames = NoSizeHeader
    /\ Len(RunLog) >= 1

\* C16: a manifest that parses but has no valid row gives an empty working
\* set, and the run does not end with an error for it: it does not stop with
\* exit status 1 at the load. (Checked for manifests that have rows, all of
\* them incomplete.)
C16_EmptyIsNothingToDo ==
    (PastLoad /\ ~LoadFails /\ manifest.rows # <<>> /\ CompleteRows = <<>>)
        => pc # "exit1"

(***************************************************************************)
(* C17: local resource errors are not retried                              *)
(***************************************************************************)
\* C17: once a download attempt of the entry has failed with an error that is
\* no service error, or the creation of its directory has failed, the entry
\* is outside the retry loop and stays there: its last record is the
\* FAILED_LOCAL_RESOURCE record, no later attempt is made, whatever is left
\* of the retry budget; after a failed directory creation no attempt is made
\* at all.
C17_LocalErrorNotRetried ==
    /\ "Exception" \in calls.failures =>
          /\ pc \in {"after_loop", "next_entry", "done"}
          /\ ~download_success
          /\ calls.sleep = calls.download - 1
          /\ LastRecord.pos = cur_pos
          /\ LastRecord.status = FAILED_LOCAL_RESOURCE
    /\ "mkdir" \in calls.failures =>
          /\ pc \in {"next_entry", "done"}
          /\ calls.download = 0
          /\ LastRecord.pos = cur_pos
          /\ LastRecord.status = FAILED_LOCAL_RESOURCE

\* the first attempt of an entry has failed with a local error while a retry
\* budget was left, and the loop over the entries has gone on
C17_Witness ==
    /\ EntryEnded
    /\ "Exception" \in calls.failures
    /\ calls.download = 1
    /\ args.retries >= 1
    /\ LastRecord.status = FAILED_LOCAL_RESOURCE

(***************************************************************************)
(* C18: a digest that cannot be computed                                   *)
(***************************************************************************)
\* C18: when calculate_md5 of the downloaded file reports an error the
\* entry's record is FAILED_CHECKSUM_READ_ERROR, and when it gives a digest
\* that differs the record is FAILED_INTEGRITY_MISMATCH; the same holds for
\* the check of a local file that exists already. No status is shared: a
\* read-error record carries no digest, a mismatch record carries a digest
\* that differs from the expected one, a verified record one that equals it.
C18_ReadErrorIsNotMismatch ==
    /\ "md5" \in calls.failures =>
          /\ pc \in {"next_entry", "done"}
          /\ LastRecord.pos = cur_pos
          /\ LastRecord.status = FAILED_CHECKSUM_READ_ERROR
    /\ "mismatch" \in calls.failures =>
          /\ LastRecord.pos = cur_pos
          /\ LastRecord.status = FAILED_INTEGRITY_MISMATCH
    /\ "local_md5" \in calls.failures =>
          \E k \in RecordsOf(cur_pos) : RunLog[k].status = FAILED_CHECKSUM_READ_ERROR
    /\ \A k \in 1..Len(RunLog) :
          /\ RunLog[k].status = FAILED_CHECKSUM_READ_ERROR =>
                RunLog[k].actual_md5 = MD5_CALC_ERROR
          /\ RunLog[k].status = FAILED_INTEGRITY_MISMATCH =>
                /\ RunLog[k].actual_md5 \notin {NA, MD5_CALC_ERROR, None}
                /\ RunLog[k].actual_md5 # RunLog[k].expected_md5
          /\ RunLog[k].status \in VerifiedStatuses =>
                RunLog[k].actual_md5 = RunLog[k].expected_md5

\* the digest of a file just downloaded could not be computed, and the entry
\* has its read-error record
C18_Witness ==
    /\ EntryEnded
    /\ download_success
    /\ "md5" \in calls.failures
    /\ LastRecord.status = FAILED_CHECKSUM_READ_ERROR

(***************************************************************************)
(* C19, C20: the generator's empty selection and the rows it writes        *)
(***************************************************************************)
\* C19: when the log exists and none of its records has a status of the
\* failure set, the generator ends with exit status 0 ("nothing to retry"),
\* and the step that ends it so leaves the file at the output path as it
\* was: none is created, an existing one keeps its content.
C19_NothingToRetry ==
    /\ [](( RetryEnded /\ retry_log.exists /\ FailedRows = {} ) => retry_pc = "exit0")
    /\ [][ retry_pc' = "exit0" => retry_manifest' = retry_manifest ]_vars

\* the generator has ended with nothing to retry on a log of two records,
\* with an older manifest at the output path
C19_Witness ==
    /\ retry_pc = "exit0"
    /\ Len(retry_log.rows) = 2
    /\ retry_manifest = StaleManifest

\* the selected records of the log, in the order of the log
SelectedRows == Ascending(FailedRows)
\* row j of the written manifest has the id, file name and checksum of the
\* j-th selected record, unchanged, and the size N/A
RowCopiesRecord(j) ==
    /\ retry_manifest.rows[j][1] = LogCell(SelectedRows[j], "UUID")
    /\ retry_manifest.rows[j][2] = LogCell(SelectedRows[j], "Filename")
    /\ retry_manifest.rows[j][3] = LogCell(SelectedRows[j], "Expected_MD5")
    /\ retry_manifest.rows[j][4] = NA

\* C20 (as claimed): each row of the retry manifest copies the id, file name
\* and expected checksum of its record, has the size N/A, and has the state
\* "retry_" followed by the record's status as the log has it.
C20_RowFromRecord ==
    retry_pc \in {"written", "loaded"} =>
        /\ Len(retry_manifest.rows) = Len(SelectedRows)
        /\ \A j \in 1..Len(retry_manifest.rows) :
              /\ RowCopiesRecord(j)
              /\ retry_manifest.rows[j][5] = <<"retry_">> \o StatusAt(SelectedRows[j])

\* C20 (amended): each row of the retry manifest copies the id, file name and
\* expected checksum of its record, has the size N/A, and has the state
\* "retry_" followed by the record's status in lower case.
C20_RowFromRecordLowerState ==
    retry_pc \in {"written", "loaded"} =>
        /\ Len(retry_manifest.rows) = Len(SelectedRows)
        /\ \A j \in 1..Len(retry_manifest.rows) :
              /\ RowCopiesRecord(j)
              /\ retry_manifest.rows[j][5] =
                    <<"retry_">> \o Lower(StatusAt(SelectedRows[j]))

\* a manifest has been written for a log whose second record alone is
\* selected; its checksum is in upper case
C20_Witness ==
    /\ retry_pc = "written"
    /\ Len(retry_log.rows) = 2
    /\ SelectedRows = <<2>>
    /\ retry_manifest.rows[1][3] = <<"AB12">>
    /\ retry_manifest.rows[1][5] = <<"retry_", "s3_check_failed">>

(***************************************************************************)
(* C21: the summary counters                                               *)
(***************************************************************************)
\* the counters that stand for a status of a processed entry
PerStatusCounters ==
    {"successful_md5_match", "skipped_md5_match", "skipped_s3_not_found",
     "skipped_s3_forbidden", "skipped_s3_other_error", "failed_md5_mismatch",
     "failed_aws_download", "failed_md5_calc", "failed_other"}

RECURSIVE SumOver(_)
SumOver(names) ==
    IF names = {} THEN 0
    ELSE LET n == CHOOSE x \in names : TRUE
         IN summary_stats[n] + SumOver(names \ {n})

\* C21: at the end of a run (with a retry budget that is not negative) the
\* per-status counters add up to the number of entries processed, each
\* processed entry being counted in exactly one of them.
C21_CountersPartition ==
    (pc = "done" /\ args.retries >= 0)
        => SumOver(PerStatusCounters) = summary_stats.processed

(***************************************************************************)
(* C22: a truncated local file left by an interrupted run                  *)
(***************************************************************************)
\* the entry at i found a truncated file at its local path
FoundTruncated == i >= 1 /\ calls.local0 = DTrunc /\ DTrunc # file_info.md5

\* C22: an entry whose local file was left truncated (its digest differs from
\* the expected checksum) never gets a SKIPPED_LOCAL_VERIFIED record, and it
\* has a SUCCESS_VERIFIED record only after a download attempt of this run
\* succeeded and left a file whose digest is the expected checksum.
C22_TruncatedNeverAccepted ==
    FoundTruncated =>
        \A k \in RecordsOf(cur_pos) :
            /\ RunLog[k].status # SKIPPED_LOCAL_VERIFIED
            /\ RunLog[k].status = SUCCESS_VERIFIED =>
                  /\ calls.download >= 1
                  /\ EntryEnded => download_success
                  /\ files[cur_key] = file_info.md5
                  /\ files[cur_key] # DTrunc
                  /\ RunLog[k].actual_md5 = file_info.md5

\* with --skip-existing, the truncated file was read without an error, the
\* entry was downloaded again and the new file verified
C22_Witness ==
    /\ EntryEnded
    /\ FoundTruncated
    /\ args.skip_existing
    /\ calls.md5 = 2
    /\ calls.failures = {}
    /\ LastRecord.pos = cur_pos
    /\ LastRecord.status = SUCCESS_VERIFIED

\* the truncated file is still there after a download that failed, and the
\* entry has no verified record
C22_WitnessStillTruncated ==
    /\ EntryEnded
    /\ FoundTruncated
    /\ args.skip_existing
    /\ files[cur_key] = DTrunc
    /\ calls.download >= 1
    /\ LastRecord.status = FAILED_TRANSFER

(***************************************************************************)
(* C23: a record is on disk when the write that produces it returns        *)
(***************************************************************************)
\* the log is open and the records of the extension filter are written
InEntryLoop ==
    pc \in {"next_entry", "probe", "mkdir", "inspect", "download", "sleep",
            "after_loop", "verify", "done"}

\* C23: between two steps of a run no record is waiting in the buffer of the
\* open log: every outcome recorded so far (one per filtered-out entry and one
\* per counted outcome) is a line of the file on disk.
C23_RecordFlushedAtWrite ==
    /\ log_f = <<>>
    /\ InEntryLoop =>
          Len(log_file.lines) = Len(skipped_ext) + SumOver(PerStatusCounters)
    /\ pc = "log_skipped" => Len(log_file.lines) < Len(skipped_ext)

\* a record was written in the middle of an entry (the existing file could not
\* be read) and the run goes on with the download of the same entry
C23_Witness ==
    /\ pc = "download"
    /\ attempt = 0
    /\ calls.download = 0
    /\ log_f = <<>>
    /\ log_file.lines # <<>>
    /\ LastRecord.pos = cur_pos
    /\ LastRecord.status = FAILED_CHECKSUM_READ_ERROR

(***************************************************************************)
(* C24: the schedule of the retry loop                                     *)
(***************************************************************************)
\* the step is a download attempt that failed with a ClientError
ClientErrorStep ==
    /\ pc = "download"
    /\ calls'.download = calls.download + 1
    /\ ~download_success'
    /\ last_exc' = "client"
    /\ "ClientError" \in calls'.failures

\* the step is a download attempt that succeeded
SuccessStep ==
    /\ pc = "download"
    /\ calls'.download = calls.download + 1
    /\ download_success'

\* the retry loop of the entry at i is over
LoopOver == pc \in {"after_loop", "verify"} \/ EntryEnded

\* C24: a ClientError on an attempt that is not the last one allowed is
\* followed by exactly one wait and then by the next attempt; a ClientError on
\* the last attempt allowed is followed by no wait; a successful attempt ends
\* the loop at once, with no later attempt and no FAILED_TRANSFER record.
C24_RetrySchedule ==
    /\ []((i >= 1 /\ pc = "download") =>
             /\ ~download_success
             /\ calls.download = attempt
             /\ calls.sleep = attempt)
    /\ []((i >= 1 /\ pc = "sleep") =>
             /\ attempt < args.retries
             /\ calls.download = attempt + 1
             /\ calls.sleep = attempt)
    /\ []((i >= 1 /\ LoopOver /\ calls.download >= 1) =>
             calls.sleep = calls.download - 1)
    /\ []((i >= 1 /\ LoopOver /\ download_success) =>
             \A k \in RecordsOf(cur_pos) : RunLog[k].status # FAILED_TRANSFER)
    /\ [][(ClientErrorStep /\ attempt < args.retries) => pc' = "sleep"]_vars
    /\ [][(ClientErrorStep /\ attempt >= args.retries) =>
             pc' = "after_loop" /\ calls'.sleep = calls.sleep]_vars
    /\ [][pc = "sleep" =>
             /\ pc' = "download"
             /\ attempt' = attempt + 1
             /\ calls'.sleep = calls.sleep + 1
             /\ calls'.download = calls.download]_vars
    /\ [][SuccessStep => pc' = "after_loop" /\ calls'.sleep = calls.sleep]_vars

\* a ClientError, one wait, and a second attempt that succeeded
C24_Witness ==
    /\ EntryEnded
    /\ download_success
    /\ "ClientError" \in calls.failures
    /\ calls.download = 2
    /\ calls.sleep = 1
    /\ LastRecord.pos = cur_pos

\* the last attempt allowed failed and the loop ended without a wait
C24_WitnessNoDelay ==
    /\ pc = "after_loop"
    /\ ~download_success
    /\ last_exc = "client"
    /\ args.retries = 0
    /\ calls.download = 1
    /\ calls.sleep = 0

(***************************************************************************)
(* C25: the local file is inspected before the object is probed            *)
(***************************************************************************)
\* with --skip-existing, the entry at i found a local file whose digest is the
\* expected checksum
FoundVerified ==
    /\ i >= 1
    /\ args.skip_existing
    /\ calls.local0 = file_info.md5

\* C25: the local file of an entry is inspected before the object is probed,
\* so that an entry whose local file verifies (its directory is there and the
\* file is read without an error) has had its digest computed and ends as
\* SKIPPED_LOCAL_VERIFIED, whatever the probe answers.
C25_InspectionBeforeProbe ==
    (EntryEnded /\ FoundVerified /\ calls.failures \subseteq {"probe"}) =>
        /\ calls.md5 >= 1
        /\ RecordsOf(cur_pos) # {}
        /\ \A k \in RecordsOf(cur_pos) : RunLog[k].status = SKIPPED_LOCAL_VERIFIED

(***************************************************************************)
(* C26: the entries are processed one after another                        *)
(***************************************************************************)
\* index in the download list of the entry a record is about (0 for an entry
\* the extension filter took out)
LoopIndex(rec) ==
    IF \E j \in 1..Len(to_download) : to_download[j] = rec.pos
    THEN CHOOSE j \in 1..Len(to_download) : to_download[j] = rec.pos
    ELSE 0

\* the step makes a call (probe, makedirs, download, sleep, MD5) for an entry
CallStep ==
    \E what \in {"probe", "mkdir", "download", "sleep", "md5"} :
        calls'[what] > calls[what]

\* the step adds a record to the log of this run
RecordStep ==
    /\ pc \notin {"parse", "setup", "open_log", "exit1"}
    /\ Len(log_file'.lines) > Len(log_file.lines)

FoundMismatched ==
    /\ i >= 1
    /\ args.skip_existing
    /\ calls.local0 # Absent
    /\ calls.local0 # file_info.md5

\* the entry at i reached the inspection of its local file: neither the
\* pre-check nor the creation of its directory ended it
ReachedInspection == calls.failures \cap {"probe", "mkdir"} = {}

C27_WitnessWrongExpectation ==
    /\ EntryEnded
    /\ FoundMismatched
    /\ calls.local0 = RemoteDigest(cur_key)
    /\ calls.md5 = 2
    /\ LastRecord.status = FAILED_INTEGRITY_MISMATCH

(***************************************************************************)
(* C28: only a download attempt changes a local data file                  *)
(***************************************************************************)
\* the step is a download attempt
DownloadStep == pc = "download" /\ calls'.download = calls.download + 1

\* the step computes the digest of a local file
DigestStep == pc \in {"inspect", "verify"} /\ calls'.md5 = calls.md5 + 1

\* C28: a step that computes the digest of a local file, the inspection of an
\* existing file in particular, leaves every local data file and every
\* directory as it is; a local data file changes only in a download attempt,
\* and then only the file of the entry at i.
C28_InspectionReadOnly ==
    /\ [][DigestStep => (files' = files /\ dirs' = dirs)]_vars
    /\ [][pc = "inspect" => (files' = files /\ dirs' = dirs)]_vars
    /\ [][files' # files =>
              /\ DownloadStep
              /\ \A k \in Keys : k # cur_key => files'[k] = files[k]]_vars

\* the inspection has read an existing local file whose digest differs, and
\* the file is as the run found it
C28_Witness ==
    /\ pc = "download"
    /\ FoundMismatched
    /\ calls.md5 = 1
    /\ calls.download = 0
    /\ files[cur_key] = calls.local0

(***************************************************************************)
(* C29: the target directory of an entry                                   *)
(***************************************************************************)
\* os.makedirs failed for the entry at i
MakeDirFailed == calls.failures \cap {"mkdir", "FileExistsError"} # {}

\* C29: a target directory is created only by the os.makedirs step of the
\* entry it belongs to (never while the manifest is loaded or the run is set
\* up), and that step comes before the entry's first download attempt; a
\* directory that is there already is not an error; and when the creation
\* fails, the entry gets one FAILED_LOCAL_RESOURCE record, no download
\* attempt, and the loop goes on with the next entry.
C29_DirectoryPerEntry ==
    /\ [][dirs' # dirs =>
              /\ pc = "mkdir"
              /\ i >= 1
              /\ calls.download = 0
              /\ dirs' = dirs \cup {file_info.uuid}]_vars
    /\ []((i >= 1 /\ calls.download >= 1) =>
              /\ calls.mkdir = 1
              /\ ~MakeDirFailed
              /\ file_info.uuid \in dirs)
    /\ [](i >= 1 => "FileExistsError" \notin calls.failures)
    /\ []((i >= 1 /\ MakeDirFailed) =>
              /\ pc \in {"next_entry", "done"}
              /\ calls.download = 0
              /\ calls.md5 = 0
              /\ Cardinality(RecordsOf(cur_pos)) = 1
              /\ LastRecord.pos = cur_pos
              /\ LastRecord.status = FAILED_LOCAL_RESOURCE)

\* the directory of the entry was there already and os.makedirs succeeded
C29_Witness ==
    /\ pc = "inspect"
    /\ calls.mkdir = 1
    /\ calls.local0 # Absent
    /\ ~MakeDirFailed
    /\ file_info.uuid \in dirs

\* the directory of the first entry could not be created; the second entry
\* got its directory and was downloaded
C29_WitnessFailedThenNext ==
    /\ i = 2
    /\ EntryEnded
    /\ \E k \in RecordsOf(to_download[1]) : RunLog[k].status = FAILED_LOCAL_RESOURCE
    /\ file_infos[to_download[1]].uuid \notin dirs
    /\ file_info.uuid \in dirs
    /\ LastRecord.status = SUCCESS_VERIFIED

(***************************************************************************)
(* C30: the log of a run only grows                                        *)
(***************************************************************************)
\* the sequence s is the beginning of the sequence t
IsPrefix(s, t) ==
    /\ Len(s) <= Len(t)
    /\ \A k \in 1..Len(s) : s[k] = t[k]

\* C30: once the run has opened its log, every step leaves the lines of the
\* file as they are or adds exactly one line after them: no line written in
\* the run is changed, moved or removed later in the run.
C30_LogOnlyGrows ==
    /\ [][pc \notin {"parse", "setup", "open_log", "exit1"} =>
              /\ log_file'.exists
              /\ IsPrefix(log_file.lines, log_file'.lines)
              /\ Len(log_file'.lines) <= Len(log_file.lines) + 1]_vars
    /\ [][IsPrefix(RunLog, RunLog')]_vars

\* the log holds the records of two entries, in the order they were written
C30_Witness ==
    /\ i = 2
    /\ EntryEnded
    /\ Len(RunLog) >= 2
    /\ RunLog[1].pos = to_download[1]
    /\ LastRecord.pos = to_download[2]

(***************************************************************************)
(* C31: a header with more than one alias of a field                       *)
(***************************************************************************)
\* the column the alias lists prefer, spelled out per field
PreferredIdColumn(h) ==
    IF InSeq("id", h) THEN "id" ELSE IF InSeq("uuid", h) THEN "uuid" ELSE "file_id"
PreferredNameColumn(h) == IF InSeq("filename", h) THEN "filename" ELSE "file_name"
PreferredMd5Column(h) == IF InSeq("md5", h) THEN "md5" ELSE "md5sum"
PreferredSizeColumn(h) == IF InSeq("size", h) THEN "size" ELSE "file_size"
\* the cell of row k under the column named col (a header without repeats)
CellUnder(k, col) ==
    manifest.rows[k][CHOOSE c \in 1..Len(manifest.fieldnames) :
                        manifest.fieldnames[c] = col]
HasSizeColumn == InSeq("size", manifest.fieldnames) \/ InSeq("file_size", manifest.fieldnames)

\* C31: when the header has more than one alias of a field, every loaded
\* entry takes the field from the alias that stands first in the alias list
\* (id, uuid, file_id; filename, file_name; md5, md5sum; size, file_size),
\* wherever the columns stand in the header.
C31_FirstAliasWins ==
    Loaded =>
        /\ Len(file_infos) = Len(manifest.rows)
        /\ \A k \in 1..Len(file_infos) :
              /\ file_infos[k].uuid = CellUnder(k, PreferredIdColumn(manifest.fieldnames))
              /\ file_infos[k].name = CellUnder(k, PreferredNameColumn(manifest.fieldnames))
              /\ file_infos[k].md5
                    = Lower(CellUnder(k, PreferredMd5Column(manifest.fieldnames)))
              /\ HasSizeColumn =>
                    file_infos[k].size
                      = CellUnder(k, PreferredSizeColumn(manifest.fieldnames))

\* the header has the later alias of every field before the earlier one, and
\* the two loaded rows took the cells of the earlier alias
C31_Witness ==
    /\ Loaded
    /\ manifest.fieldnames
         = <<"uuid", "id", "file_name", "filename", "md5sum", "md5", "file_size", "size">>
    /\ Len(file_infos) = 2
    /\ file_infos[1].uuid = manifest.rows[1][2]
    /\ file_infos[1].uuid # manifest.rows[1][1]
    /\ file_infos[2].name = manifest.rows[2][4]
    /\ file_infos[2].size = manifest.rows[2][8]
\* uuid is taken before file_id although file_id is the first column
C31_WitnessUuidBeforeFileId ==
    /\ Loaded
    /\ manifest.fieldnames = <<"file_id", "uuid", "file_name", "md5sum", "file_size">>
    /\ Len(file_infos) >= 1
    /\ file_infos[1].uuid = manifest.rows[1][2]
    /\ file_infos[1].uuid # manifest.rows[1][1]

(***************************************************************************)
(* C32: the transfer stage under every retry budget                        *)
(***************************************************************************)
\* the entry at i got to the retry loop: neither the pre-check, nor the
\* creation of its directory, nor a verified local file ended it before
ReachedTransfer ==
    /\ ReachedInspection
    /\ \A k \in RecordsOf(cur_pos) : RunLog[k].status # SKIPPED_LOCAL_VERIFIED
\* the statuses written by the retry loop and by the verification after it
TransferOutcomes ==
    {SUCCESS_VERIFIED, FAILED_TRANSFER, FAILED_LOCAL_RESOURCE,
     FAILED_INTEGRITY_MISMATCH, FAILED_CHECKSUM_READ_ERROR}

\* C32: whatever integer --retries is (0 and negative values included), an
\* entry that reaches the transfer stage has had at least one download
\* attempt when it ends, and the last record of the log is a record of the
\* stage's outcome for that entry.
C32_EveryBudgetAttempts ==
    (EntryEnded /\ ReachedTransfer) =>
        /\ calls.download >= 1
        /\ RunLog # <<>>
        /\ LastRecord.pos = cur_pos
        /\ LastRecord.status \in TransferOutcomes

(***************************************************************************)
(* C33: the log of an earlier run                                          *)
(***************************************************************************)
\* the run has opened its log
LogOpened == pc \notin {"parse", "setup", "open_log", "exit1"}
\* positions of the entries the per-entry loop of this run has got to
Started == {to_download[j] : j \in 1..i}

\* C33: once a run has opened the log, the file holds records of that run
\* only, whatever an earlier run on the same path left in it: first the
\* records of the entries the extension filter took out, in order, then
\* records of entries the loop of this run has got to (at most two each).
C33_LogOfLastRunOnly ==
    LogOpened =>
        /\ log_file.exists
        /\ Len(log_file.lines) <= Len(skipped_ext) + 2 * i
        /\ \A k \in 1..Len(log_file.lines) :
              IF k <= Len(skipped_ext)
              THEN /\ log_file.lines[k].status = SKIPPED_EXTENSION_FILTERED
                   /\ log_file.lines[k].pos = skipped_ext[k]
              ELSE log_file.lines[k].pos \in Started

\* the second run has just opened the log that the first run had left with a
\* record for each of the two entries: the records are gone
C33_Witness ==
    /\ run = "second"
    /\ first_verified
    /\ Len(file_infos) = 2
    /\ pc = "next_entry"
    /\ i = 0
    /\ log_file.exists
    /\ log_file.lines = <<>>
\* the second run ended with its own two records
C33_WitnessSecondRunRecords ==
    /\ run = "second"
    /\ first_verified
    /\ pc = "done"
    /\ Len(log_file.lines) = 2

(***************************************************************************)
(* C34: what a failed or empty load leaves untouched                       *)
(***************************************************************************)
\* the run has exited and no entry was loaded
ExitedAtLoad == pc = "exit1" /\ file_infos = <<>>
\* the log is as the run found it: no file where there was no log directory,
\* else the file with the record an earlier run left
LogAsFound ==
    log_file = IF base_dirs THEN [exists |-> TRUE, lines |-> <<StaleRecord>>]
                            ELSE [exists |-> FALSE, lines |-> <<>>]
\* the only directories under the dataset directory are those of the local
\* files that were there before the run
DirsAsFound == dirs = {k[1] : k \in {kk \in DOMAIN files : files[kk] # Absent}}

\* C34: when the load of the manifest fails or gives no entry, the run exits
\* with the log file neither created nor emptied, no output directory
\* created, and no call made to the object store (nor to the local disk).
C34_FailedLoadTouchesNothing ==
    ExitedAtLoad =>
        /\ LogAsFound
        /\ DirsAsFound
        /\ log_f = <<>>
        /\ calls = NoCalls
        /\ i = 0

\* a manifest whose only row has no checksum, in a place without output
\* directories: the run has exited and there is still no directory and no log
C34_Witness ==
    /\ ExitedAtLoad
    /\ manifest.readable
    /\ Len(manifest.rows) = 1
    /\ ~base_dirs
    /\ ~log_file.exists
\* an unreadable manifest: the log of the earlier run is as it was
C34_WitnessLogKept ==
    /\ ExitedAtLoad
    /\ ~manifest.readable
    /\ log_file.lines = <<StaleRecord>>

(***************************************************************************)
(* C37: the pre-check variant against the basic variant                    *)
(***************************************************************************)
\* the statuses of the records of the entry at position pos, in the order of
\* the log
StatusesOf(pos) ==
    LET recs == SelectSeq(RunLog, LAMBDA r : r.pos = pos)
    IN [k \in 1..Len(recs) |-> recs[k].status]

\* what the entry at i met, read off the history of its calls: the outcome of
\* os.makedirs, of the digest of the local file, of each download_file call
\* (every attempt but the last one made was a ClientError) and of the digest
\* of the downloaded file
MkdirFailed == calls.failures \cap {"mkdir", "FileExistsError"} # {}
LocalInspected == args.skip_existing /\ calls.local0 # Absent
LocalReadFailed == "local_md5" \in calls.failures
DownloadOutcomes ==
    [k \in 1..calls.download |->
        IF k < calls.download THEN "ClientError"
        ELSE IF download_success THEN "ok"
        ELSE IF "Exception" \in calls.failures THEN "Exception"
        ELSE "ClientError"]
VerifyOutcome ==
    IF "md5" \in calls.failures THEN "error"
    ELSE IF "mismatch" \in calls.failures THEN "mismatch" ELSE "match"

\* the retry loop of download_tcga_boto3.py over a sequence of outcomes:
\* the statuses it writes and whether it ends with download_success
RECURSIVE basic_retry_loop(_, _, _)
basic_retry_loop(outcomes, n, retries) ==
    IF n > retries \/ n + 1 > Len(outcomes)
    THEN [statuses |-> <<>>, download_success |-> FALSE]
    ELSE CASE outcomes[n + 1] = "ok" ->
                [statuses |-> <<>>, download_success |-> TRUE]
           [] outcomes[n + 1] = "ClientError" ->
                IF n < retries THEN basic_retry_loop(outcomes, n + 1, retries)
                ELSE [statuses |-> <<FAILED_TRANSFER>>, download_success |-> FALSE]
           [] outcomes[n + 1] = "Exception" ->
                [statuses |-> <<FAILED_LOCAL_RESOURCE>>, download_success |-> FALSE]

\* the loop body of download_tcga_boto3.py for one entry: the statuses of the
\* records it writes, in order
basic_loop_body(mkdir_failed, inspected, read_failed, local_md5, expected_md5, outcomes, retries, verify_outcome) ==
    IF mkdir_failed THEN <<FAILED_LOCAL_RESOURCE>>
    ELSE IF inspected /\ ~read_failed /\ local_md5 = expected_md5
    THEN <<SKIPPED_LOCAL_VERIFIED>>
    ELSE LET before == IF inspected /\ read_failed
                       THEN <<FAILED_CHECKSUM_READ_ERROR>> ELSE <<>>
             loop == basic_retry_loop(outcomes, 0, retries)
             after == IF ~loop.download_success THEN <<>>
                      ELSE IF verify_outcome = "error"
                      THEN <<FAILED_CHECKSUM_READ_ERROR>>
                      ELSE IF verify_outcome = "match" THEN <<SUCCESS_VERIFIED>>
                      ELSE <<FAILED_INTEGRITY_MISMATCH>>
         IN before \o loop.statuses \o after

C37_WitnessExceptionAfterClientError ==
    /\ variant = "ok"
    /\ EntryEnded
    /\ args.allowed_extensions = <<>>
    /\ calls.download = 2
    /\ {"ClientError", "Exception"} \subseteq calls.failures
    /\ StatusesOf(cur_pos) = <<FAILED_LOCAL_RESOURCE>>
\* the basic script on the same outcomes as C37_Witness
C37_WitnessBasic ==
    /\ variant = "basic"
    /\ EntryEnded
    /\ calls.download = 2
    /\ ~download_success
    /\ StatusesOf(cur_pos) = <<FAILED_TRANSFER>>

(***************************************************************************)
(* download_by_uuid.py: download of one object, or of every object listed  *)
(* under a UUID, with a progress callback                                  *)
(* A key is a text: a sequence of pieces, "/" being a piece of its own.    *)
(***************************************************************************)
\* --output_dir
OutputDir == <<"out">>

\* the objects the bucket can hold, in the key order of list_objects_v2:
\* a folder marker "u1/", "u1/a.bam" and "u1/sub/a.bam"
ObjectPool ==
    << [Key |-> <<"u1", "/">>, Size |-> 0],
       [Key |-> <<"u1", "/", "a.bam">>, Size |-> 2],
       [Key |-> <<"u1", "/", "sub", "/", "a.bam">>, Size |-> 1] >>
\* values of --filename (None: the option is not given)
FilenameArgs == {None, <<"a.bam">>, <<"sub", "/", "a.bam">>, <<"b.svs">>}

\* response['Contents'] for a prefix: the objects of the bucket whose key
\* starts with it, in key order
Contents(prefix) ==
    LET hits == {k \in bucket : /\ Len(prefix) <= Len(ObjectPool[k].Key)
                                /\ SubSeq(ObjectPool[k].Key, 1, Len(prefix)) = prefix}
        order == Ascending(hits)
    IN [k \in 1..Len(order) |-> ObjectPool[order[k]]]

\* an optional number is <<>> (None) or <<n>>
NoSize == <<>>

\* the size of the object stored under the key, or None when there is none
ObjectSize(key) ==
    IF \E k \in bucket : ObjectPool[k].Key = key
    THEN <<ObjectPool[CHOOSE k \in bucket : ObjectPool[k].Key = key].Size>>
    ELSE NoSize

\* list_files_in_uuid: the listing under f"{uuid}/", or [] on a ClientError
list_files_in_uuid(uuid, response) ==
    IF response = "ClientError" THEN <<>> ELSE Contents(uuid \o <<"/">>)

\* s3_key.split('/')[-1]: what stands after the last "/"
RECURSIVE split_last(_)
split_last(key) ==
    IF key = <<>> THEN <<>>
    ELSE IF key[Len(key)] = "/" THEN <<>>
    ELSE Append(split_last(SubSeq(key, 1, Len(key) - 1)), key[Len(key)])

\* os.path.join(output_dir, filename): with an empty filename, the directory
\* itself ("out/")
path_join(output_dir, filename) == output_dir \o <<"/">> \o filename

\* the locals of download_file(bucket_name, s3_key, output_dir, file_size)
\* before the size is looked up; file_size is None or <<size>>
download_file_entry(key, file_size) ==
    [s3_key |-> key,
     filename |-> split_last(key),
     local_file_path |-> path_join(OutputDir, split_last(key)),
     file_size |-> file_size]

\* (variant: a callback is made for a size of zero, too)
file_size_ge_0(file_size) == file_size >= 0

\* "if file_size > 0"
file_size_gt_0(file_size) == file_size > 0

\* ProgressPercentage(filename, filesize); _lock is 0 or the thread holding it
ProgressPercentage(filename, filesize) ==
    [_filename |-> filename, _size |-> filesize, _seen_so_far |-> 0, _lock |-> 0]

\* (variant: the lock lets every thread in)
acquire_unlocked(lock) == TRUE

\* "with self._lock": the lock can be taken when no thread holds it
acquire(lock) == lock = 0

\* main() up to the first download_file call: os.makedirs, then direct mode
\* (a --filename is given) or discovery mode (the listing)
UuidMain ==
    /\ uuid_pc = "main"
    /\ \E makedirs \in {"ok", "OSError"}, response \in {"ok", "ClientError"} :
          IF makedirs = "OSError"
          THEN /\ uuid_pc' = "traceback"
               /\ UNCHANGED <<files_found, obj_i, download_file_locals>>
          ELSE IF uuid_args.filename # None /\ uuid_args.filename # <<>>
          THEN /\ response = "ok"
               /\ download_file_locals'
                     = download_file_entry(uuid_args.uuid \o <<"/">> \o uuid_args.filename,
                                           NoSize)
               /\ uuid_pc' = "head"
               /\ UNCHANGED <<files_found, obj_i>>
          ELSE LET found == list_files_in_uuid(uuid_args.uuid, response)
               IN /\ files_found' = found
                  /\ IF found = <<>>
                     THEN /\ uuid_pc' = "end"
                          /\ UNCHANGED <<obj_i, download_file_locals>>
                     ELSE /\ obj_i' = 1
                          /\ download_file_locals'
                                = download_file_entry(found[1].Key, <<found[1].Size>>)
                          /\ uuid_pc' = "callback"
    /\ UNCHANGED <<uuid_args, bucket, callback, workers, transfer, stdout, saved,
                   detect_vars, retry_vars, variant, args, manifest, remote, files,
                   dirs, base_dirs, log_file, log_f, pc, file_infos, to_download,
                   skipped_ext, i, attempt, download_success, last_exc, calls,
                   summary_stats, run, first_verified>>

\* "if file_size is None": head_object gives ContentLength, or any exception
\* sets file_size = 0
UuidHead ==
    /\ uuid_pc = "head"
    /\ \E head \in {"ok", "exception"} :
          LET size == ObjectSize(download_file_locals.s3_key)
          IN /\ (head = "ok" => size # NoSize)
             /\ download_file_locals'
                   = [download_file_locals EXCEPT
                        !.file_size = IF head = "ok" THEN size ELSE <<0>>]
    /\ uuid_pc' = "callback"
    /\ UNCHANGED <<uuid_args, bucket, files_found, obj_i, callback, workers, transfer,
                   stdout, saved,
                   detect_vars, retry_vars, variant, args, manifest, remote, files,
                   dirs, base_dirs, log_file, log_f, pc, file_infos, to_download,
                   skipped_ext, i, attempt, download_success, last_exc, calls,
                   summary_stats, run, first_verified>>

\* "callback = None; if file_size > 0: callback = ProgressPercentage(...)",
\* then the transfer starts: every byte of the object is still to be reported
MakeCallback ==
    /\ uuid_pc = "callback"
    /\ callback' = IF file_size_gt_0(download_file_locals.file_size[1])
                   THEN <<ProgressPercentage(download_file_locals.filename,
                                             download_file_locals.file_size[1])>>
                   ELSE <<>>
    /\ LET size == ObjectSize(download_file_locals.s3_key)
       IN transfer' = [unreported |-> IF size = NoSize THEN 0 ELSE size[1],
                       reported |-> 0]
    /\ uuid_pc' = "transfer"
    /\ UNCHANGED <<uuid_args, bucket, files_found, obj_i, download_file_locals, workers,
                   stdout, saved,
                   detect_vars, retry_vars, variant, args, manifest, remote, files,
                   dirs, base_dirs, log_file, log_f, pc, file_infos, to_download,
                   skipped_ext, i, attempt, download_success, last_exc, calls,
                   summary_stats, run, first_verified>>

\* what the steps of a transfer thread leave alone
WorkerFrame ==
    UNCHANGED <<uuid_pc, uuid_args, bucket, files_found, obj_i, download_file_locals,
                saved,
                detect_vars, retry_vars, variant, args, manifest, remote, files,
                dirs, base_dirs, log_file, log_f, pc, file_infos, to_download,
                skipped_ext, i, attempt, download_success, last_exc, calls,
                summary_stats, run, first_verified>>

\* a transfer thread has received bytes and calls callback(bytes_amount)
Call(w) ==
    /\ uuid_pc = "transfer"
    /\ callback # <<>>
    /\ workers[w].pc = "idle"
    /\ transfer.unreported > 0
    /\ \E bytes_amount \in 1..transfer.unreported :
          /\ workers' = [workers EXCEPT ![w] = [pc |-> "with_lock",
                                                bytes_amount |-> bytes_amount,
                                                tmp |-> 0, mine |-> 0]]
          /\ transfer' = [unreported |-> transfer.unreported - bytes_amount,
                          reported |-> transfer.reported + bytes_amount]
    /\ UNCHANGED <<callback, stdout>>
    /\ WorkerFrame

\* "with self._lock:" entered
Acquire(w) ==
    /\ workers[w].pc = "with_lock"
    /\ acquire(callback[1]._lock)
    /\ callback' = <<[callback[1] EXCEPT !._lock = w]>>
    /\ workers' = [workers EXCEPT ![w].pc = "load"]
    /\ UNCHANGED <<transfer, stdout>>
    /\ WorkerFrame

\* "self._seen_so_far += bytes_amount", first half: the attribute is read
Load(w) ==
    /\ workers[w].pc = "load"
    /\ workers' = [workers EXCEPT ![w].pc = "store",
                                  ![w].tmp = callback[1]._seen_so_far]
    /\ UNCHANGED <<callback, transfer, stdout>>
    /\ WorkerFrame

\* second half: the sum is stored
Store(w) ==
    /\ workers[w].pc = "store"
    /\ callback' = <<[callback[1] EXCEPT
                        !._seen_so_far = workers[w].tmp + workers[w].bytes_amount]>>
    /\ workers' = [workers EXCEPT ![w].pc = "write",
                                  ![w].mine = workers[w].tmp + workers[w].bytes_amount]
    /\ UNCHANGED <<transfer, stdout>>
    /\ WorkerFrame

\* "percentage = (self._seen_so_far / self._size) * 100" and the line written
\* to sys.stdout; a size of zero raises ZeroDivisionError instead
Write(w) ==
    /\ workers[w].pc = "write"
    /\ stdout' = Append(stdout,
                        [by |-> w,
                         mine |-> workers[w].mine,
                         seen_so_far |-> callback[1]._seen_so_far,
                         size |-> callback[1]._size,
                         ZeroDivisionError |-> callback[1]._size = 0,
                         percentage |-> IF callback[1]._size = 0 THEN 0
                                        ELSE (callback[1]._seen_so_far * 100)
                                                 \div callback[1]._size])
    /\ workers' = [workers EXCEPT ![w].pc = "release"]
    /\ UNCHANGED <<callback, transfer>>
    /\ WorkerFrame

\* the end of the "with" block: the lock is released
Release(w) ==
    /\ workers[w].pc = "release"
    /\ callback' = <<[callback[1] EXCEPT !._lock = 0]>>
    /\ workers' = [workers EXCEPT ![w] = WorkerIdle]
    /\ UNCHANGED <<transfer, stdout>>
    /\ WorkerFrame

\* a ZeroDivisionError was raised in a callback of this transfer
Raised ==
    \E k \in 1..Len(stdout) : stdout[k].ZeroDivisionError

\* s3_client.download_file returns or raises (every thread is out of the
\* callback); download_file returns True or False, and main() goes on with the
\* next listed object, if any
TransferEnd ==
    /\ uuid_pc = "transfer"
    /\ \A w \in Workers : workers[w].pc = "idle"
    /\ \E outcome \in {"ok", "ClientError", "Exception"} :
          /\ outcome = "ok" =>
                /\ ObjectSize(download_file_locals.s3_key) # NoSize
                /\ download_file_locals.filename # <<>>
                /\ callback # <<>> => transfer.unreported = 0
                /\ ~Raised
          /\ saved' = Append(saved, [key |-> download_file_locals.s3_key,
                                      path |-> download_file_locals.local_file_path,
                                      result |-> outcome = "ok"])
    /\ IF obj_i >= 1 /\ obj_i < Len(files_found)
       THEN /\ obj_i' = obj_i + 1
            /\ download_file_locals'
                  = download_file_entry(files_found[obj_i + 1].Key,
                                        <<files_found[obj_i + 1].Size>>)
            /\ uuid_pc' = "callback"
       ELSE /\ uuid_pc' = "end"
            /\ UNCHANGED <<obj_i, download_file_locals>>
    /\ UNCHANGED <<uuid_args, bucket, files_found, callback, workers, transfer, stdout,
                   detect_vars, retry_vars, variant, args, manifest, remote, files,
                   dirs, base_dirs, log_file, log_f, pc, file_infos, to_download,
                   skipped_ext, i, attempt, download_success, last_exc, calls,
                   summary_stats, run, first_verified>>

NextByUuid ==
    \/ UuidMain
    \/ UuidHead
    \/ MakeCallback
    \/ \E w \in Workers : Call(w)
    \/ \E w \in Workers : Acquire(w)
    \/ \E w \in Workers : Load(w)
    \/ \E w \in Workers : Store(w)
    \/ \E w \in Workers : Write(w)
    \/ \E w \in Workers : Release(w)
    \/ TransferEnd

\* the downloaders and the generator are not running
MainIdle ==
    /\ variant = "ok"
    /\ args = [skip_existing |-> FALSE, retries |-> 0, allowed_extensions |-> <<>>]
    /\ files = [k \in Keys |-> Absent]
    /\ dirs = {}
    /\ base_dirs = FALSE
    /\ log_file = [exists |-> FALSE, lines |-> <<>>]
    /\ pc = "idle"
    /\ file_infos = <<>>
    /\ to_download = <<>>
    /\ skipped_ext = <<>>
    /\ i = 0
    /\ attempt = 0
    /\ download_success = FALSE
    /\ last_exc = "none"
    /\ calls = NoCalls
    /\ log_f = <<>>
    /\ summary_stats = NoStats
    /\ run = "first"
    /\ first_verified = FALSE
    /\ retry_pc = "start"
    /\ retry_log = NoFile
    /\ retry_manifest = NoFile
    /\ retry_file_infos = LoadError

\* download_by_uuid.py is started: any bucket over the pool, --uuid u1 or u2,
\* any --filename
InitByUuid ==
    /\ MainIdle
    /\ manifest = [readable |-> FALSE, fieldnames |-> <<>>, rows |-> <<>>]
    /\ remote = [k \in Keys |-> "present"]
    /\ DetectIdle
    /\ uuid_pc = "main"
    /\ uuid_args \in [uuid : {U1, U2}, filename : FilenameArgs]
    /\ bucket \in SUBSET (1..Len(ObjectPool))
    /\ files_found = <<>>
    /\ obj_i = 0
    /\ download_file_locals = <<>>
    /\ callback = <<>>
    /\ workers = [w \in Workers |-> WorkerIdle]
    /\ transfer = [unreported |-> 0, reported |-> 0]
    /\ stdout = <<>>
    /\ saved = <<>>

SpecByUuid == InitByUuid /\ [][NextByUuid]_vars

(***************************************************************************)
(* C35: concurrent progress callbacks                                      *)
(***************************************************************************)
\* the bytes a thread has reported by a call whose increment is not stored yet
PendingOf(w) ==
    IF workers[w].pc \in {"with_lock", "load", "store"}
    THEN workers[w].bytes_amount ELSE 0
Pending == PendingOf(1) + PendingOf(2)

\* C35: no update of concurrent progress callbacks is lost: the bytes-seen
\* counter plus the amounts of the calls that have not stored their increment
\* yet is the sum of the amounts reported (so the counter is that sum when
\* no call is under way), and every printed line shows the value that its own
\* call's increment produced.
C35_NoLostUpdate ==
    /\ callback # <<>> =>
          callback[1]._seen_so_far + Pending = transfer.reported
    /\ \A k \in 1..Len(stdout) : stdout[k].seen_so_far = stdout[k].mine

\* one thread is between the read and the write of the counter while the
\* other one, called too, waits for the lock
C35_Witness ==
    /\ workers[1].pc = "store"
    /\ workers[2].pc = "with_lock"
    /\ transfer.reported = 2
\* two calls of different threads have returned: the counter is the sum
C35_WitnessBothDone ==
    /\ Len(stdout) = 2
    /\ stdout[1].by # stdout[2].by
    /\ \A w \in Workers : workers[w].pc = "idle"
    /\ callback # <<>>
    /\ callback[1]._seen_so_far = 2
    /\ stdout[2].seen_so_far = 2

(***************************************************************************)
(* C36: the local paths of the objects of one listing                      *)
(***************************************************************************)
\* C36 (as claimed): in discovery mode (no --filename) the objects of the
\* listing are saved under local paths of their own: two download_file calls
\* for different keys never use the same local path, and no call uses the
\* output directory itself as its path.
C36_OwnLocalPath ==
    uuid_args.filename = None =>
        /\ \A a, b \in 1..Len(saved) :
              saved[a].key # saved[b].key => saved[a].path # saved[b].path
        /\ \A a \in 1..Len(saved) : saved[a].path # OutputDir \o <<"/">>

(***************************************************************************)
(* C39: the size the percentage is computed with                           *)
(***************************************************************************)
\* C39: a progress callback exists only for a size that is known (from the
\* listing or from head_object) and greater than zero, and no progress line
\* was ever computed with a size of zero.
C39_NoZeroSize ==
    /\ callback # <<>> => callback[1]._size > 0
    /\ (callback # <<>> /\ uuid_pc = "transfer") =>
          <<callback[1]._size>> = ObjectSize(download_file_locals.s3_key)
    /\ \A k \in 1..Len(stdout) :
          /\ ~stdout[k].ZeroDivisionError
          /\ stdout[k].size > 0

\* direct mode, head_object failed for an object of two bytes: the size is
\* unknown (0) and the transfer runs without a callback
C39_Witness ==
    /\ uuid_pc = "transfer"
    /\ uuid_args.filename # None
    /\ download_file_locals.file_size = <<0>>
    /\ ObjectSize(download_file_locals.s3_key) = <<2>>
    /\ callback = <<>>
\* discovery mode over a listing with an object of size 0: no callback for it
C39_WitnessEmptyObject ==
    /\ uuid_pc = "transfer"
    /\ uuid_args.filename = None
    /\ files_found[obj_i].Size = 0
    /\ callback = <<>>
\* a line was printed: 1 of 2 bytes, 50 percent
C39_WitnessLine ==
    /\ Len(stdout) >= 1
    /\ stdout[1].size = 2
    /\ stdout[1].seen_so_far = 1
    /\ stdout[1].percentage = 50

(***************************************************************************)
(* detect_tcga_boto3.py: the existence checker                             *)
(***************************************************************************)
\* one data row -> <<entry>> or <<>> when the row is skipped
ParseRowForCheck(fieldnames, actual_col_id, actual_col_filename, row) ==
    LET file_uuid == RowGet(fieldnames, row, actual_col_id)
        file_name == RowGet(fieldnames, row, actual_col_filename)
    IN IF ~Truthy(file_uuid) \/ ~Truthy(file_name) THEN <<>>
       ELSE <<[uuid |-> file_uuid, name |-> file_name]>>

RECURSIVE ParseRowsForCheck(_, _, _, _)
ParseRowsForCheck(fieldnames, actual_col_id, actual_col_filename, rows) ==
    IF rows = <<>> THEN <<>>
    ELSE ParseRowForCheck(fieldnames, actual_col_id, actual_col_filename, Head(rows))
            \o ParseRowsForCheck(fieldnames, actual_col_id, actual_col_filename,
                                 Tail(rows))

\* parse_manifest_for_check: None on a load error, else the list files_to_check
parse_manifest_for_check(mf) ==
    IF ~mf.readable THEN LoadError
    ELSE IF mf.fieldnames = <<>> THEN LoadError
    ELSE LET actual_col_id == FirstOption(col_options_id, mf.fieldnames)
             actual_col_filename == FirstOption(col_options_filename, mf.fieldnames)
         IN IF actual_col_id = NoCol \/ actual_col_filename = NoCol
            THEN LoadError
            ELSE [none |-> FALSE,
                  files |-> ParseRowsForCheck(mf.fieldnames, actual_col_id,
                                              actual_col_filename, mf.rows)]

\* (variant: only a 404 counts as a failed check)
check_s3_object_existence_404_only(resp) ==
    IF resp.exc = "ClientError"
       /\ (resp.code = "404" \/ resp.code = "NoSuchKey" \/ resp.http = 404)
    THEN [exists |-> FALSE, message |-> "404 Not Found"]
    ELSE [exists |-> TRUE, message |-> "exists"]

\* check_s3_object_existence: (exists, message) from the answer of head_object
check_s3_object_existence(resp) ==
    IF resp.exc = "none" THEN [exists |-> TRUE, message |-> "exists"]
    ELSE IF resp.exc = "ClientError"
         THEN IF resp.code = "404" \/ resp.code = "NoSuchKey" \/ resp.http = 404
              THEN [exists |-> FALSE, message |-> "404 Not Found"]
              ELSE [exists |-> FALSE, message |-> "AWS API error"]
         ELSE [exists |-> FALSE, message |-> "unknown error"]

\* a line an earlier run left in the failure log
StaleLine == [uuid |-> U1, name |-> NameBam, message |-> "404 Not Found"]

\* what the steps of the checker leave alone
DetectFrame ==
    UNCHANGED <<by_uuid_vars, retry_vars, variant, args, manifest, remote, files,
                dirs, base_dirs, log_file, log_f, pc, file_infos, to_download,
                skipped_ext, i, attempt, download_success, last_exc, calls,
                summary_stats, run, first_verified>>

\* main() up to the loop: the log directory, the manifest (exit on None or on
\* an empty list), the client, the counters, the log opened with "w" and its
\* header written
DetectStart ==
    /\ detect_pc = "main"
    /\ \E makedirs \in {"ok", "OSError"} :
          LET r == parse_manifest_for_check(manifest)
          IN IF makedirs = "OSError" \/ r.none \/ r.files = <<>>
             THEN /\ detect_pc' = "exit1"
                  /\ UNCHANGED <<files_to_check, detect_log>>
             ELSE /\ files_to_check' = r.files
                  /\ detect_log' = [exists |-> TRUE, lines |-> <<>>]
                  /\ detect_pc' = "loop"
    /\ failed_count' = 0
    /\ processed_count' = 0
    /\ UNCHANGED probes
    /\ DetectFrame

\* one iteration of "for i, file_info in enumerate(file_infos)"
DetectCheck ==
    /\ detect_pc = "loop"
    /\ processed_count < Len(files_to_check)
    /\ LET file_info_ == files_to_check[processed_count + 1]
           key == s3_key(file_info_.uuid, file_info_.name)
       IN \E resp \in HeadResponses(remote[key]) :
             LET r == check_s3_object_existence(resp)
             IN /\ probes' = Append(probes, resp)
                /\ IF ~r.exists
                   THEN /\ failed_count' = failed_count + 1
                        /\ detect_log' =
                              [detect_log EXCEPT
                                 !.lines = Append(@, [uuid |-> file_info_.uuid,
                                                      name |-> file_info_.name,
                                                      message |-> r.message])]
                   ELSE UNCHANGED <<failed_count, detect_log>>
    /\ processed_count' = processed_count + 1
    /\ UNCHANGED <<detect_pc, files_to_check>>
    /\ DetectFrame

\* the loop is over: the log is closed and the two counts are printed
DetectFinish ==
    /\ detect_pc = "loop"
    /\ processed_count = Len(files_to_check)
    /\ detect_pc' = "done"
    /\ UNCHANGED <<files_to_check, failed_count, processed_count, detect_log, probes>>
    /\ DetectFrame

NextDetect == DetectStart \/ DetectCheck \/ DetectFinish

\* the checker is started on a manifest and a bucket of the model, with or
\* without a failure log of an earlier run
InitDetect ==
    /\ MainIdle
    /\ ByUuidIdle
    /\ manifest \in Manifests
    /\ remote \in [Keys -> {"present", "notfound", "forbidden"}]
    /\ \A k \in Keys : k \notin KeysOf(manifest) => remote[k] = "present"
    /\ detect_pc = "main"
    /\ files_to_check = <<>>
    /\ failed_count = 0
    /\ processed_count = 0
    /\ detect_log \in {[exists |-> FALSE, lines |-> <<>>],
                        [exists |-> TRUE, lines |-> <<StaleLine>>]}
    /\ probes = <<>>

SpecDetect == InitDetect /\ [][NextDetect]_vars

(***************************************************************************)
(* C38: the failure log of the existence checker                           *)
(***************************************************************************)
\* the entries checked so far for which head_object did not answer "present"
NotPresent == Ascending({k \in 1..Len(probes) : probes[k].exc # "none"})

\* C38: while the checker runs and when it has ended, the failure log holds
\* one line for each checked entry whose probe did not report the object
\* present, in catalog order, and no other line; the failure count is the
\* number of those lines; the processed count is the number of entries
\* checked, which is the number of loaded entries when the run has ended.
C38_FailureLogExact ==
    detect_pc \in {"loop", "done"} =>
        /\ processed_count = Len(probes)
        /\ failed_count = Len(NotPresent)
        /\ Len(detect_log.lines) = Len(NotPresent)
        /\ \A j \in 1..Len(detect_log.lines) :
              /\ detect_log.lines[j].uuid = files_to_check[NotPresent[j]].uuid
              /\ detect_log.lines[j].name = files_to_check[NotPresent[j]].name
        /\ detect_pc = "done" => processed_count = Len(files_to_check)

\* two entries checked: the first one is present (no line), the second one is
\* refused (403): one line, for the second entry
C38_Witness ==
    /\ detect_pc = "done"
    /\ Len(files_to_check) = 2
    /\ probes[1].exc = "none"
    /\ probes[2].code = "403"
    /\ failed_count = 1
    /\ Len(detect_log.lines) = 1
    /\ detect_log.lines[1].uuid = files_to_check[2].uuid
\* both entries failed: two lines in catalog order
C38_WitnessTwoLines ==
    /\ detect_pc = "done"
    /\ Len(files_to_check) = 2
    /\ failed_count = 2
    /\ detect_log.lines[1].uuid = files_to_check[1].uuid
    /\ detect_log.lines[2].uuid = files_to_check[2].uuid
    /\ files_to_check[1].uuid # files_to_check[2].uuid

====
